---- MODULE Spec2Model ----
(***************************************************************************)
(* A model of the nntrainer tensor engine.                                 *)
(*                                                                         *)
(* Two generations of the Tensor class live in the repository:             *)
(*   - the 3-axis Tensor (batch, height, width) of src/src/tensor.cpp      *)
(*     lines 30-493, which holds its elements by value in `data` and whose *)
(*     arithmetic is written twice, for the USE_BLAS build and for the     *)
(*     plain build;                                                        *)
(*   - the 4-axis Tensor of the tensor.h declaration (same file, lines     *)
(*     518-1328), which holds a shared, reference counted buffer.          *)
(* SpecLegacy drives the arithmetic of the first and SpecCalls its         *)
(* constructors, file I/O and the deferred chain; SpecShared drives the    *)
(* buffer sharing of the second and SpecShape its shape changes;           *)
(* SpecActivation drives the functions of the activation layer of          *)
(* src/unnamed/part_000 and SpecLayer the layer object that installs and   *)
(* calls them; SpecDeepQ drives the episode loop of src/DeepQ/main.cpp.    *)
(*                                                                         *)
(* Floats are modelled by integers where the checked operation is exact    *)
(* over integer data, and by quotients of sums of exponentials in softmax. *)
(* C indices are 0-based, TLA+ sequences 1-based: element i of a buffer d  *)
(* is d[i + 1].                                                            *)
(***************************************************************************)
EXTENDS Integers, Sequences, FiniteSets, TLC

VARIABLES
    blas,     \* the build: TRUE when compiled with USE_BLAS
    self,     \* the receiver (`this`) of the 3-axis operations
    m,        \* the right operand of the 3-axis operations
    out,      \* what the last 3-axis operation did
    heap,     \* the shared buffers of the 4-axis tensors
    ts,       \* the 4-axis tensor objects, by slot
    nbuf,     \* how many buffers were ever allocated
    clonedFrom,   \* per slot: the buffer the tensor in it was cloned from, or 0
    last      \* the last operation on the 4-axis tensors

legacyVars == <<blas, self, m, out>>
sharedVars == <<heap, ts, nbuf, clonedFrom, last>>
vars == <<blas, self, m, out, heap, ts, nbuf, clonedFrom, last>>

(***************************************************************************)
(* Bounds of the model.                                                    *)
(***************************************************************************)
MaxBatch == 3
MaxDim == 2
MaxLen == 2
MaxSlots == 3
MaxAlloc == 2
MaxOps == 2
MaxSteps == 3

\* Seeds of the operands' element patterns, scalar arguments, and the values
\* an out-of-bounds read may yield.
Seeds == {0, 1}
RightSeeds == {2}
Scalars == {-1, 2}
Garbage == {0, 9}
\* the values setValue writes
Values == {8}

(***************************************************************************)
(* Buffers and element access.                                             *)
(***************************************************************************)
InRange(d, i) == i >= 0 /\ i < Len(d)

\* d[i]; reading outside a std::vector is undefined: the read yields g.
Rd(d, i, g) == IF InRange(d, i) THEN d[i + 1] ELSE g

\* d after the writes W (a function from 0-based indices to values); a write
\* outside the buffer does not land in it.
Store(d, W) ==
    [p \in 1..Len(d) |-> IF (p - 1) \in DOMAIN W THEN W[p - 1] ELSE d[p]]

\* some index of the set S lies outside the buffer d
Escapes(d, S) == \E i \in S : ~InRange(d, i)

Zeros(n) == [i \in 1..n |-> 0]

Abs(x) == IF x < 0 THEN -x ELSE x


RECURSIVE SumSeq(_, _, _, _)
\* d[from] + ... + d[from + n - 1], reads outside d yielding g
SumSeq(d, from, n, g) ==
    IF n <= 0 THEN 0 ELSE Rd(d, from, g) + SumSeq(d, from + 1, n - 1, g)

RECURSIVE SumAbs(_, _, _, _)
SumAbs(d, from, n, g) ==
    IF n <= 0 THEN 0 ELSE Abs(Rd(d, from, g)) + SumAbs(d, from + 1, n - 1, g)

(***************************************************************************)
(* The BLAS kernels the USE_BLAS build calls.  A buffer under computation  *)
(* is a record [d, oob]: its elements, and whether any access so far fell  *)
(* outside a buffer.                                                       *)
(***************************************************************************)
Buf(d) == [d |-> d, oob |-> FALSE]

\* y[i] = x[i] for i < n
cblas_scopy(n, x, y, g) ==
    [d |-> Store(y.d, [i \in 0..(n - 1) |-> Rd(x, i, g)]),
     oob |-> y.oob \/ n > Len(x) \/ n > Len(y.d)]

\* y[off + i] += alpha * x[i] for i < n
cblas_saxpy(n, alpha, x, y, off, g) ==
    [d |-> Store(y.d, [j \in off..(off + n - 1) |->
                          Rd(y.d, j, g) + alpha * Rd(x, j - off, g)]),
     oob |-> y.oob \/ n > Len(x) \/ (n > 0 /\ off + n > Len(y.d))]

\* sum of |x[from + i]| for i < n
cblas_sasum(n, x, from, g) == SumAbs(x, from, n, g)

RECURSIVE saxpyPerBatch(_, _, _, _, _, _)
\* for (k = 0; k < batch; ++k) cblas_saxpy(size, alpha, x, &y[k * size])
saxpyPerBatch(k, size, alpha, x, y, g) ==
    IF k = 0 THEN y
    ELSE cblas_saxpy(size, alpha, x,
                     saxpyPerBatch(k - 1, size, alpha, x, y, g),
                     (k - 1) * size, g)

(***************************************************************************)
(* The 3-axis Tensor.                                                      *)
(***************************************************************************)
\* Tensor::Tensor(int batch, int height, int width), then setZero()
Tensor3(b, h, w) ==
    [batch |-> b, height |-> h, width |-> w, len |-> h * w * b,
     data |-> Zeros(h * w * b)]

NoTensor == [batch |-> 0, height |-> 0, width |-> 0, len |-> 0, data |-> <<>>]

\* What an operation did: whether its assert stopped it, whether it
\* reached outside a buffer, and the tensor it returns.
Done(t, oob) == [failed |-> FALSE, oob |-> oob, t |-> t]
AssertFailed == [failed |-> TRUE, oob |-> FALSE, t |-> NoTensor]

WithData(t, b) == [t EXCEPT !.data = b]

\* if (m.batch == 1): m's one batch is used for every batch of `this`
sharedAcrossBatch_never(n) == n.batch = 0

sharedAcrossBatch(n) == n.batch = 1

\* Tensor::add(float const &value)
add_value(t, value, use_blas, g) ==
    LET result == Tensor3(t.batch, t.height, t.width)
        tmp == [i \in 1..result.len |-> 1]
        copied == cblas_scopy(t.len, t.data, Buf(result.data), g)
        summed == cblas_saxpy(t.len, value, tmp, copied, 0, g)
        W == [k \in 0..(t.batch - 1) |-> Rd(t.data, k, g) + value]
    IN  IF use_blas
        THEN Done(WithData(result, summed.d), summed.oob)
        ELSE Done(WithData(result, Store(result.data, W)),
                  Escapes(result.data, DOMAIN W) \/ Escapes(t.data, DOMAIN W))

\* Tensor::add(Tensor const &m)
add(t, n, use_blas, g) ==
    LET result == Tensor3(t.batch, t.height, t.width)
        size == t.width * t.height
        copied == cblas_scopy(t.len, t.data, Buf(result.data), g)
        viaBlas == IF sharedAcrossBatch(n)
                   THEN saxpyPerBatch(t.batch, size, 1, n.data, copied, g)
                   ELSE cblas_saxpy(t.len, 1, n.data, copied, 0, g)
        \* j = k * m.len; result.data[j + i] = data[j + i] + m.data[i]
        W1 == [x \in 0..(t.batch * n.len - 1) |->
                  Rd(t.data, x, g) + Rd(n.data, x % n.len, g)]
        \* result.data[k] = data[k] + m.data[k]
        W2 == [k \in 0..(t.len - 1) |-> Rd(t.data, k, g) + Rd(n.data, k, g)]
        W == IF sharedAcrossBatch(n) THEN W1 ELSE W2
        \* the indices of m.data the loop reads
        R == IF sharedAcrossBatch(n)
             THEN (IF t.batch > 0 THEN 0..(n.len - 1) ELSE {})
             ELSE DOMAIN W2
    IN  IF ~(t.height = n.height /\ t.width = n.width) THEN AssertFailed
        ELSE IF use_blas THEN Done(WithData(result, viaBlas.d), viaBlas.oob)
        ELSE Done(WithData(result, Store(result.data, W)),
                  Escapes(result.data, DOMAIN W) \/ Escapes(t.data, DOMAIN W)
                    \/ Escapes(n.data, R))

\* subtract written as a copy of add
subtract_asAdd(t, n, use_blas, g) == add(t, n, use_blas, g)

\* Tensor::subtract(Tensor const &m)
subtract(t, n, use_blas, g) ==
    LET result == Tensor3(t.batch, t.height, t.width)
        size == t.width * t.height
        alpha == -1
        copied == cblas_scopy(t.len, t.data, Buf(result.data), g)
        viaBlas == IF sharedAcrossBatch(n)
                   THEN saxpyPerBatch(t.batch, size, alpha, n.data, copied, g)
                   ELSE cblas_saxpy(t.len, alpha, n.data, copied, 0, g)
        W1 == [x \in 0..(t.batch * n.len - 1) |->
                  Rd(t.data, x, g) - Rd(n.data, x % n.len, g)]
        W2 == [k \in 0..(t.len - 1) |-> Rd(t.data, k, g) - Rd(n.data, k, g)]
        W == IF sharedAcrossBatch(n) THEN W1 ELSE W2
        \* the indices of m.data the loop reads
        R == IF sharedAcrossBatch(n)
             THEN (IF t.batch > 0 THEN 0..(n.len - 1) ELSE {})
             ELSE DOMAIN W2
    IN  IF ~(t.height = n.height /\ t.width = n.width) THEN AssertFailed
        \* the USE_BLAS build alone asserts batch == m.batch
        ELSE IF use_blas /\ ~sharedAcrossBatch(n) /\ t.batch # n.batch
        THEN AssertFailed
        ELSE IF use_blas THEN Done(WithData(result, viaBlas.d), viaBlas.oob)
        ELSE Done(WithData(result, Store(result.data, W)),
                  Escapes(result.data, DOMAIN W) \/ Escapes(t.data, DOMAIN W)
                    \/ Escapes(n.data, R))

RECURSIVE multiplyRows(_, _, _, _, _)
\* Tensor::multiply, m.batch == 1: the batches 0..k-1 of the loop over k.
\* Per batch, the body unrolled four times and the loop over the rest.
multiplyRows(k, t, n, res, g) ==
    IF k = 0 THEN res
    ELSE LET prev == multiplyRows(k - 1, t, n, res, g)
             b == (k - 1) * t.width * t.height
             e == (t.width * t.height) \div 4
             i == e * 4
             J == (0..(i - 1)) \cup (i..(t.width * t.height - 1))
             W == [x \in {b + j : j \in J} |->
                      Rd(t.data, x, g) * Rd(n.data, x - b, g)]
         IN  [d |-> Store(prev.d, W),
              oob |-> prev.oob \/ Escapes(prev.d, DOMAIN W)
                        \/ Escapes(t.data, DOMAIN W) \/ Escapes(n.data, J)]

\* Tensor::multiply without the loop over the rest, for m of the receiver's
\* batch size
multiply_unrolledOnly(t, n, g) ==
    LET result == Tensor3(t.batch, t.height, t.width)
        end == t.len \div 4
        i == end * 4
        J == 0..(i - 1)
        W == [j \in J |-> Rd(t.data, j, g) * Rd(n.data, j, g)]
        rows == multiplyRows(t.batch, t, n, Buf(result.data), g)
    IN  IF ~(t.height = n.height /\ t.width = n.width) THEN AssertFailed
        ELSE IF sharedAcrossBatch(n)
        THEN Done(WithData(result, rows.d), rows.oob)
        ELSE Done(WithData(result, Store(result.data, W)),
                  Escapes(result.data, J) \/ Escapes(t.data, J)
                    \/ Escapes(n.data, J))

\* Tensor::multiply(Tensor const &m)
multiply(t, n, g) ==
    LET result == Tensor3(t.batch, t.height, t.width)
        end == t.len \div 4
        i == end * 4
        J == (0..(i - 1)) \cup (i..(t.len - 1))
        W == [j \in J |-> Rd(t.data, j, g) * Rd(n.data, j, g)]
        rows == multiplyRows(t.batch, t, n, Buf(result.data), g)
    IN  IF ~(t.height = n.height /\ t.width = n.width) THEN AssertFailed
        ELSE IF sharedAcrossBatch(n)
        THEN Done(WithData(result, rows.d), rows.oob)
        ELSE Done(WithData(result, Store(result.data, W)),
                  Escapes(result.data, J) \/ Escapes(t.data, J)
                    \/ Escapes(n.data, J))

\* a / b over floats, kept exact: the pair of dividend and divisor
Quot(a, b) == <<a, b>>

RECURSIVE divideRows(_, _, _, _, _)
\* Tensor::divide, m.batch == 1: the batches 0..k-1 of the loop over k.
\* The loop over the rest starts at j = i - 1.
divideRows(k, t, n, res, g) ==
    IF k = 0 THEN res
    ELSE LET prev == divideRows(k - 1, t, n, res, g)
             b == (k - 1) * t.width * t.height
             e == (t.width * t.height) \div 4
             i == e * 4
             J == (0..(i - 1)) \cup ((i - 1)..(t.width * t.height - 1))
             W == [x \in {b + j : j \in J} |->
                      Quot(Rd(t.data, x, g), Rd(n.data, x - b, g))]
         IN  [d |-> Store(prev.d, W),
              oob |-> prev.oob \/ Escapes(prev.d, DOMAIN W)
                        \/ Escapes(t.data, DOMAIN W) \/ Escapes(n.data, J)]

\* Tensor::divide(Tensor const &m); the result's elements are quotients
divide(t, n, g) ==
    LET result == Tensor3(t.batch, t.height, t.width)
        zero == [p \in 1..result.len |-> Quot(0, 1)]
        end == t.len \div 4
        i == end * 4
        J == (0..(i - 1)) \cup ((i - 1)..(t.len - 1))
        W == [j \in J |-> Quot(Rd(t.data, j, g), Rd(n.data, j, g))]
        rows == divideRows(t.batch, t, n, Buf(zero), g)
    IN  IF ~(t.height = n.height /\ t.width = n.width) THEN AssertFailed
        ELSE IF sharedAcrossBatch(n)
        THEN Done(WithData(result, rows.d), rows.oob)
        ELSE Done(WithData(result, Store(zero, W)),
                  Escapes(zero, J) \/ Escapes(t.data, J)
                    \/ Escapes(n.data, J))

\* Tensor::sum(): the sum by batch
sum(t, use_blas, g) ==
    LET ret == Tensor3(t.batch, 1, 1)
        size == t.width * t.height
        viaBlas == [k \in 0..(t.batch - 1) |->
                       cblas_sasum(size, t.data, k * size, g)]
        \* id = k * width * height; ret.data[id] = 0; ret.data[id] += ...
        W == [id \in {k * size : k \in 0..(t.batch - 1)} |->
                 SumSeq(t.data, id, size, g)]
        read == {k * size + i : k \in 0..(t.batch - 1), i \in 0..(size - 1)}
    IN  IF use_blas
        THEN Done(WithData(ret, Store(ret.data, viaBlas)),
                  Escapes(ret.data, DOMAIN viaBlas) \/ Escapes(t.data, read))
        ELSE Done(WithData(ret, Store(ret.data, W)),
                  Escapes(ret.data, DOMAIN W) \/ Escapes(t.data, read))

RECURSIVE Inner_fromOne(_, _, _, _, _, _, _)
\* the same loop started at h = 1
Inner_fromOne(K, A, aoff, B, boff, ldb, g) ==
    IF K <= 1 THEN 0
    ELSE Inner_fromOne(K - 1, A, aoff, B, boff, ldb, g)
           + Rd(A, aoff + K - 1, g) * Rd(B, boff + (K - 1) * ldb, g)

RECURSIVE Inner(_, _, _, _, _, _, _)
\* sum over h < K of A[aoff + h] * B[boff + h * ldb]
Inner(K, A, aoff, B, boff, ldb, g) ==
    IF K <= 0 THEN 0
    ELSE Inner(K - 1, A, aoff, B, boff, ldb, g)
           + Rd(A, aoff + K - 1, g) * Rd(B, boff + (K - 1) * ldb, g)

\* cblas_sgemm(RowMajor, NoTrans, NoTrans, M, N, K, alpha = 1, A + aoff,
\* lda = K, B + boff, ldb = N, beta = 1, C + coff, ldc = N):
\* C = A * B + C on an M x K and a K x N matrix
cblas_sgemm(M, N, K, A, aoff, B, boff, C, coff, g) ==
    LET W == [x \in {coff + i * N + j : i \in 0..(M - 1), j \in 0..(N - 1)} |->
                 LET i == (x - coff) \div N
                     j == (x - coff) % N
                 IN  Inner(K, A, aoff + i * K, B, boff + j, N, g)
                       + Rd(C.d, x, g)]
        readA == {aoff + x : x \in 0..(M * K - 1)}
        readB == {boff + x : x \in 0..(K * N - 1)}
    IN  [d |-> Store(C.d, W),
         oob |-> C.oob \/ Escapes(C.d, DOMAIN W) \/ Escapes(A, readA)
                   \/ Escapes(B, readB)]

RECURSIVE sgemmPerBatch(_, _, _, _, _, _)
\* for (k = 0; k < batch; k++) cblas_sgemm(...) on batch k of this, of the
\* result and (when m.batch != 1) of m
sgemmPerBatch(k, t, n, mwidth, C, g) ==
    IF k = 0 THEN C
    ELSE LET i == (k - 1) * t.width * t.height
             j == IF sharedAcrossBatch(n) THEN 0
                  ELSE (k - 1) * n.width * n.height
             ii == (k - 1) * t.height * mwidth
         IN  cblas_sgemm(t.height, mwidth, t.width, t.data, i, n.data, j,
                         sgemmPerBatch(k - 1, t, n, mwidth, C, g), ii, g)

\* assert(width == m.height)
innerDimsMatch_unchecked(t, n) == TRUE

innerDimsMatch(t, n) == t.width = n.height

\* Tensor::dot(Tensor const &m)
dot(t, n, use_blas, g) ==
    LET mwidth == n.width
        result == Tensor3(t.batch, t.height, mwidth)
        viaBlas == sgemmPerBatch(t.batch, t, n, mwidth, Buf(result.data), g)
        cells == {<<k, i, j>> : k \in 0..(t.batch - 1),
                    i \in 0..(t.height - 1), j \in 0..(mwidth - 1)}
        moff(k) == IF sharedAcrossBatch(n) THEN 0 ELSE k * t.width * mwidth
        \* w += data[k*height*width + i*width + h] * m.data[.. + h*mwidth + j]
        W == [x \in {c[1] * t.height * mwidth + c[2] * mwidth + c[3] :
                       c \in cells} |->
                 LET k == x \div (t.height * mwidth)
                     i == (x % (t.height * mwidth)) \div mwidth
                     j == x % mwidth
                 IN  Inner(t.width, t.data, k * t.height * t.width + i * t.width,
                           n.data, moff(k) + j, mwidth, g)]
        readA == {c[1] * t.height * t.width + c[2] * t.width + h :
                    c \in cells, h \in 0..(t.width - 1)}
        readB == {moff(c[1]) + h * mwidth + c[3] :
                    c \in cells, h \in 0..(t.width - 1)}
    IN  IF ~innerDimsMatch(t, n) THEN AssertFailed
        ELSE IF use_blas THEN Done(WithData(result, viaBlas.d), viaBlas.oob)
        ELSE Done(WithData(result, Store(result.data, W)),
                  Escapes(result.data, DOMAIN W) \/ Escapes(t.data, readA)
                    \/ Escapes(n.data, readB))

\* Tensor::copy(const Tensor &from), this != &from: the shape is taken from
\* `from`, `len` and the size of `data` are left as they were
copy(t, from, g) ==
    LET W == [i \in 0..(t.len - 1) |-> Rd(from.data, i, g)]
    IN  IF from.len # 0
        THEN Done([batch |-> from.batch, height |-> from.height,
                   width |-> from.width, len |-> t.len,
                   data |-> Store(t.data, W)],
                  Escapes(t.data, DOMAIN W) \/ Escapes(from.data, DOMAIN W))
        ELSE Done(t, FALSE)

(***************************************************************************)
(* The 3-axis state machine: two operands are constructed, then            *)
(* operations are applied to them.  An operation whose assert fails aborts *)
(* the program; one that reaches outside a buffer has undefined behaviour: *)
(* it may crash, or go on with whatever the stray reads yielded.           *)
(***************************************************************************)
\* the elements the operands are constructed with
Fill(seed, n) == [i \in 1..n |-> ((3 * i + 5 * seed) % 7) - 3]

\* Tensor::Tensor(std::vector<std::vector<std::vector<float>>> const &d)
Operands(S) ==
    {WithData(Tensor3(b, h, w), Fill(s, b * h * w)) :
        b \in 1..MaxBatch, h \in 1..MaxDim, w \in 1..MaxDim, s \in S}

NoOp == [op |-> "none", recv |-> "this", value |-> 0, status |-> "ok",
         oob |-> FALSE, t |-> NoTensor]

SharedIdle ==
    /\ heap = <<>>
    /\ ts = <<>>
    /\ nbuf = 0
    /\ clonedFrom = <<>>
    /\ last = "idle"

InitLegacy ==
    /\ blas \in BOOLEAN
    /\ self \in Operands(Seeds)
    /\ m \in Operands(RightSeeds)
    /\ out = NoOp
    /\ SharedIdle

Running == out.status = "ok"

\* What `out` records of an operation's result r.
Outcome(opname, recv, arg, r, crash) ==
    [op |-> opname, recv |-> recv, value |-> arg,
     status |-> IF r.failed THEN "assert" ELSE IF crash THEN "crash" ELSE "ok",
     oob |-> r.oob,
     t |-> IF r.failed \/ crash THEN NoTensor ELSE r.t]

\* One call of an operation.  R[g] is what it does when a read outside a
\* buffer yields g; which accesses fall outside does not depend on g.
Perform(opname, recv, arg, R) ==
    LET r0 == R[0]
    IN  IF ~r0.oob
        THEN out' = Outcome(opname, recv, arg, r0, FALSE)
        ELSE \E g \in Garbage, crash \in BOOLEAN :
                out' = Outcome(opname, recv, arg, R[g], crash)

\* the receiver of add and subtract: `this`, or the tensor the previous
\* subtract or add on `this` returned (a.add(m).subtract(m))
Receiver(recv) == IF recv = "this" THEN self ELSE out.t

Add ==
    /\ Running
    /\ \E recv \in {"this", "subtract"} :
          /\ recv = "subtract" => out.op = "subtract" /\ out.recv = "this"
          /\ Perform("add", recv, 0,
                     [g \in Garbage |-> add(Receiver(recv), m, blas, g)])
    /\ UNCHANGED <<blas, self, m>>
    /\ UNCHANGED sharedVars

Subtract ==
    /\ Running
    /\ \E recv \in {"this", "add"} :
          /\ recv = "add" => out.op = "add" /\ out.recv = "this"
          /\ Perform("subtract", recv, 0,
                     [g \in Garbage |-> subtract(Receiver(recv), m, blas, g)])
    /\ UNCHANGED <<blas, self, m>>
    /\ UNCHANGED sharedVars

Multiply ==
    /\ Running
    /\ Perform("multiply", "this", 0, [g \in Garbage |-> multiply(self, m, g)])
    /\ UNCHANGED <<blas, self, m>>
    /\ UNCHANGED sharedVars

Divide ==
    /\ Running
    /\ Perform("divide", "this", 0, [g \in Garbage |-> divide(self, m, g)])
    /\ UNCHANGED <<blas, self, m>>
    /\ UNCHANGED sharedVars

AddValue ==
    /\ Running
    /\ \E v \in Scalars :
          Perform("add_value", "this", v,
                  [g \in Garbage |-> add_value(self, v, blas, g)])
    /\ UNCHANGED <<blas, self, m>>
    /\ UNCHANGED sharedVars

Sum ==
    /\ Running
    /\ Perform("sum", "this", 0, [g \in Garbage |-> sum(self, blas, g)])
    /\ UNCHANGED <<blas, self, m>>
    /\ UNCHANGED sharedVars

Dot ==
    /\ Running
    /\ Perform("dot", "this", 0, [g \in Garbage |-> dot(self, m, blas, g)])
    /\ UNCHANGED <<blas, self, m>>
    /\ UNCHANGED sharedVars

\* self.copy(m): the one operation here that changes its receiver
Copy ==
    /\ Running
    /\ Perform("copy", "this", 0, [g \in Garbage |-> copy(self, m, g)])
    /\ self' = IF out'.status = "ok" THEN out'.t ELSE self
    /\ UNCHANGED <<blas, m>>
    /\ UNCHANGED sharedVars

NextLegacy ==
    \/ Add
    \/ Subtract
    \/ Multiply
    \/ Divide
    \/ AddValue
    \/ Sum
    \/ Dot
    \/ Copy

SpecLegacy == InitLegacy /\ [][NextLegacy]_vars

(***************************************************************************)
(* Single calls: constructors, file output and input, the deferred chain   *)
(* and the activation functions, each applied to inputs drawn from small   *)
(* sets.  `out` records the call; a run makes one call, or one sequence of  *)
(* calls on the object the first one made.                                 *)
(***************************************************************************)
InitCalls ==
    /\ blas = FALSE
    /\ self = NoTensor
    /\ m = NoTensor
    /\ out = NoOp
    /\ SharedIdle

NoCallYet == out.op = "none"

\* a row of n elements, the j-th row of the i-th matrix of a literal
LiteralRow(i, j, n) == [k \in 1..n |-> 10 * i + 3 * j + k]

\* nested literals of one matrix: 1..MaxDim rows of 1..MaxDim elements each,
\* of equal lengths or not
Matrices(i) ==
    UNION {{[j \in 1..h |-> LiteralRow(i, j, w[j])] :
               w \in [1..h -> 1..MaxDim]} : h \in 1..MaxDim}

\* nested literals of one or two matrices
Literals3 ==
    {<<a>> : a \in Matrices(0)}
      \cup {<<a, b>> : a \in Matrices(0), b \in Matrices(1)}

\* d[j][k] of a std::vector<std::vector<float>>: outside the row, or in a
\* row outside the matrix, the read is undefined and yields g
RowCell(d, j, k, g) ==
    IF j < Len(d) /\ k < Len(d[j + 1]) THEN d[j + 1][k + 1] ELSE g

RowCellInside(d, j, k) == j < Len(d) /\ k < Len(d[j + 1])

\* Tensor::Tensor(std::vector<std::vector<float>> const &d): height and width
\* are taken from d and d[0], then every d[j][k] below them is read
fromRows(d, g) ==
    LET height == Len(d)
        width == Len(d[1])
        W == [x \in 0..(height * width - 1) |->
                 RowCell(d, x \div width, x % width, g)]
    IN  Done([batch |-> 1, height |-> height, width |-> width,
              len |-> height * width,
              data |-> Store(Zeros(height * width), W)],
             \E x \in DOMAIN W : ~RowCellInside(d, x \div width, x % width))

\* Tensor::Tensor(std::vector<std::vector<std::vector<float>>> const &d):
\* batch, height and width are taken from d, d[0] and d[0][0]
fromMatrices(d, g) ==
    LET batch == Len(d)
        height == Len(d[1])
        width == Len(d[1][1])
        size == height * width
        inside(x) == /\ x \div size < Len(d)
                     /\ RowCellInside(d[(x \div size) + 1],
                                      (x % size) \div width, x % width)
        W == [x \in 0..(batch * size - 1) |->
                 IF inside(x)
                 THEN d[(x \div size) + 1][((x % size) \div width) + 1]
                       [(x % width) + 1]
                 ELSE g]
    IN  Done([batch |-> batch, height |-> height, width |-> width,
              len |-> batch * size,
              data |-> Store(Zeros(batch * size), W)],
             \E x \in DOMAIN W : ~inside(x))

FromRows ==
    /\ NoCallYet
    /\ \E d \in Matrices(0) :
          Perform("fromRows", "this", d, [g \in Garbage |-> fromRows(d, g)])
    /\ UNCHANGED <<blas, self, m>>
    /\ UNCHANGED sharedVars

FromMatrices ==
    /\ NoCallYet
    /\ \E d \in Literals3 :
          Perform("fromMatrices", "this", d,
                  [g \in Garbage |-> fromMatrices(d, g)])
    /\ UNCHANGED <<blas, self, m>>
    /\ UNCHANGED sharedVars

\* Tensor::chain() and the builder it returns: the anchor is a copy of the
\* tensor's elements, the steps are recorded and not run
chain(d) == [anchor |-> d, steps |-> <<>>]

\* the steps a chain is built of: add a scalar, multiply by a scalar
ChainSteps == {[f |-> "add_i", v |-> 1], [f |-> "multiply_i", v |-> 2]}

append(lz, st) == [lz EXCEPT !.steps = Append(@, st)]

applyStep(st, d) ==
    IF st.f = "add_i" THEN [i \in DOMAIN d |-> d[i] + st.v]
    ELSE [i \in DOMAIN d |-> d[i] * st.v]

RECURSIVE run_lastFirst(_, _)
\* the steps taken from the end
run_lastFirst(steps, d) ==
    IF steps = <<>> THEN [d |-> d, applied |-> 0]
    ELSE LET r == run_lastFirst(SubSeq(steps, 1, Len(steps) - 1),
                                applyStep(steps[Len(steps)], d))
         IN  [d |-> r.d, applied |-> r.applied + 1]

RECURSIVE run(_, _)
\* run(): the recorded steps are applied in the order they were appended,
\* each to what the one before returned
run(steps, d) ==
    IF steps = <<>> THEN [d |-> d, applied |-> 0]
    ELSE LET r == run(Tail(steps), applyStep(Head(steps), d))
         IN  [d |-> r.d, applied |-> r.applied + 1]

\* what `out` records of a chain: the builder, the number of steps executed
\* so far and, once run, the elements returned
Chained(opname, lz, applied, d) ==
    [op |-> opname, recv |-> "this", value |-> lz, status |-> "ok",
     oob |-> FALSE, t |-> d, applied |-> applied]

Building == out.op \in {"chain", "append"}

Chain ==
    /\ NoCallYet
    /\ \E s \in Seeds : out' = Chained("chain", chain(Fill(s, MaxDim)), 0, <<>>)
    /\ UNCHANGED <<blas, self, m>>
    /\ UNCHANGED sharedVars

AppendStep ==
    /\ Building
    /\ Len(out.value.steps) < MaxSteps
    /\ \E st \in ChainSteps :
          out' = Chained("append", append(out.value, st), out.applied, <<>>)
    /\ UNCHANGED <<blas, self, m>>
    /\ UNCHANGED sharedVars

Run ==
    /\ Building
    /\ LET r == run(out.value.steps, out.value.anchor)
       IN  out' = Chained("run", out.value, out.applied + r.applied, r.d)
    /\ UNCHANGED <<blas, self, m>>
    /\ UNCHANGED sharedVars

\* the four bytes of a float in memory, lowest first.  An element is an
\* integer here; its 32-bit two's complement pattern stands for the float's
\* bit pattern.
FloatBytes_highFirst(v) ==
    <<(v \div 16777216) % 256, (v \div 65536) % 256, (v \div 256) % 256,
      v % 256>>

FloatBytes(v) ==
    <<v % 256, (v \div 256) % 256, (v \div 65536) % 256,
      (v \div 16777216) % 256>>

\* the float whose four bytes start at byte p (0-based) of the file
FloatAt(file, p) ==
    LET low == file[p + 1] + 256 * file[p + 2] + 65536 * file[p + 3]
        top == file[p + 4]
    IN  (IF top >= 128 THEN top - 256 ELSE top) * 16777216 + low

RECURSIVE save(_, _, _)
\* Tensor::save(std::ofstream &file):
\* for (i < len) file.write((char *)&data[i], sizeof(float))
save(t, i, file) ==
    IF i >= t.len THEN file
    ELSE save(t, i + 1, file \o FloatBytes(t.data[i + 1]))

\* Tensor::read(std::ifstream &file):
\* for (i < len) file.read((char *)&data[i], sizeof(float)); a read past the
\* end of the file leaves the element as it was
read(t, file) ==
    [t |-> WithData(t, [p \in 1..Len(t.data) |->
                          IF p <= t.len /\ 4 * p <= Len(file)
                          THEN FloatAt(file, 4 * (p - 1))
                          ELSE t.data[p]]),
     pos |-> IF 4 * t.len <= Len(file) THEN 4 * t.len ELSE Len(file)]

\* what `out` records of file output and input: the tensor saved, the file,
\* the tensor read into and the number of bytes read
Filed(opname, src, file, t, pos) ==
    [op |-> opname, recv |-> "this", value |-> src, status |-> "ok",
     oob |-> FALSE, t |-> t, file |-> file, pos |-> pos]

Save ==
    /\ NoCallYet
    /\ \E t \in Operands(Seeds) :
          out' = Filed("save", t, save(t, 0, <<>>), NoTensor, 0)
    /\ UNCHANGED <<blas, self, m>>
    /\ UNCHANGED sharedVars

\* read into a tensor of the saved one's shape, constructed with zeros
Read ==
    /\ out.op = "save"
    /\ LET target == Tensor3(out.value.batch, out.value.height, out.value.width)
           r == read(target, out.file)
       IN  out' = Filed("read", out.value, out.file, r.t, r.pos)
    /\ UNCHANGED <<blas, self, m>>
    /\ UNCHANGED sharedVars

transpose_keepOrder(t) ==
    WithData(Tensor3(t.batch, t.width, t.height), t.data)

\* Tensor Tensor::transpose() const
transpose(t) ==
    WithData(Tensor3(t.batch, t.width, t.height),
        [p \in 1..(t.batch * t.width * t.height) |->
            LET b == ((p - 1) \div (t.width * t.height)) * t.width * t.height
                i == ((p - 1) % (t.width * t.height)) \div t.height
                j == (p - 1) % t.height
            IN  t.data[b + j * t.width + i + 1]])

\* t.transpose(), and the transpose of what that returned; `value` stays
\* the tensor the first call was made on
Transpose ==
    /\ \/ /\ NoCallYet
          /\ \E t \in Operands(Seeds) :
                out' = Outcome("transpose", "this", t,
                               Done(transpose(t), FALSE), FALSE)
       \/ /\ out.op = "transpose"
          /\ out.recv = "this"
          /\ out' = Outcome("transpose", "transpose", out.value,
                            Done(transpose(out.t), FALSE), FALSE)
    /\ UNCHANGED <<blas, self, m>>
    /\ UNCHANGED sharedVars

RECURSIVE argmaxFrom(_, _, _, _)
\* the loop of argmax from element i on, with the running maximum
argmaxFrom(data, i, maximum, index) ==
    IF i >= Len(data) THEN index
    ELSE IF data[i + 1] > maximum
         THEN argmaxFrom(data, i + 1, data[i + 1], i)
         ELSE argmaxFrom(data, i + 1, maximum, index)

\* int Tensor::argmax(), and argmax(std::vector<double>) of DeepQ/main.cpp:
\* index = 0 and maximum = 0.0 to start with
argmax(data) == argmaxFrom(data, 0, 0, 0)

\* the vectors argmax is asked about: the operands' buffers, and vectors of
\* negative elements in rising order
ArgmaxInputs ==
    {t.data : t \in Operands(Seeds)}
        \cup {[i \in 1..w |-> i - w - 1] : w \in 1..MaxDim}

Argmax ==
    /\ NoCallYet
    /\ \E data \in ArgmaxInputs :
          out' = [op |-> "argmax", recv |-> "this", value |-> data,
                  status |-> "ok", oob |-> FALSE, t |-> NoTensor,
                  index |-> argmax(data)]
    /\ UNCHANGED <<blas, self, m>>
    /\ UNCHANGED sharedVars

NextCalls ==
    \/ FromRows
    \/ FromMatrices
    \/ Chain
    \/ AppendStep
    \/ Run
    \/ Save
    \/ Read
    \/ Transpose
    \/ Argmax

SpecCalls == InitCalls /\ [][NextCalls]_vars

(***************************************************************************)
(* The 4-axis Tensor of tensor.h: a TensorDim, its strides, and `data`, a  *)
(* std::shared_ptr<float> into a buffer that other tensors may hold too.   *)
(* A buffer lives in `heap` under the number it was allocated with; a      *)
(* pointer is a buffer number and an element offset into it.               *)
(***************************************************************************)
\* TensorDim::getDataLen()
getDataLen(d) == d[1] * d[2] * d[3] * d[4]

\* TensorDim::getFeatureLen()
getFeatureLen(d) == d[2] * d[3] * d[4]

\* TensorDim::computeStrides(): row-major, the width's stride 1
computeStrides(d) == <<d[2] * d[3] * d[4], d[3] * d[4], d[4], 1>>

\* the shapes tensors are constructed with: one channel, at most MaxLen
\* elements
SharedDims ==
    {d \in (1..MaxLen) \X {1} \X (1..MaxLen) \X (1..MaxLen) :
        getDataLen(d) <= MaxLen}

Slots == 1..MaxSlots

nullptr == [buf |-> 0, off |-> 0]

\* no Tensor object in the slot
NoObject == [dim |-> <<0, 0, 0, 0>>, strides |-> <<0, 0, 0, 0>>,
             is_contiguous |-> FALSE, data |-> nullptr]

Live(s) == ts[s] # NoObject

\* Tensor::length()
length(t) == getDataLen(t.dim)

\* Tensor::getIndex(b, c, h, w)
getIndex(t, b, c, h, w) ==
    b * t.strides[1] + c * t.strides[2] + h * t.strides[3] + w * t.strides[4]

\* Tensor::getValue(b, c, h, w): getData()[getIndex(b, c, h, w)]
getValue(hp, t, b, c, h, w) ==
    hp[t.data.buf].cells[t.data.off + getIndex(t, b, c, h, w) + 1]

\* the elements a tensor shows, in buffer order
Visible(hp, t) ==
    [e \in 1..length(t) |-> hp[t.data.buf].cells[t.data.off + e]]

\* the valid coordinates of a shape
Coords(d) ==
    (0..(d[1] - 1)) \X (0..(d[2] - 1)) \X (0..(d[3] - 1)) \X (0..(d[4] - 1))

\* a heap that never frees
Collect_leak(hp, objs) == hp

\* std::shared_ptr: a buffer is freed when no tensor points into it any more
Collect(hp, objs) ==
    [b \in DOMAIN hp |->
        IF \E s \in DOMAIN objs : objs[s].data.buf = b
        THEN hp[b]
        ELSE [cells |-> <<>>, live |-> FALSE]]

\* a buffer of the given elements, allocated under the next number
Allocate(hp, cells) == Append(hp, [cells |-> cells, live |-> TRUE])

\* the lowest slot without an object: where the next object is made
Free == {s \in Slots : ~Live(s)}

NewSlot == CHOOSE s \in Free : \A x \in Free : s <= x

\* the operation just performed, the n-th of the run
Did(op, dst, src, ok) ==
    [op |-> op, dst |-> dst, src |-> src, ok |-> ok, e |-> 0, v |-> 0,
     n |-> last.n + 1]

MoreOps == last.n < MaxOps

LegacyIdle ==
    /\ blas = FALSE
    /\ self = NoTensor
    /\ m = NoTensor
    /\ out = NoOp

\* Tensor(const TensorDim &d, const float *buf): a buffer of d's length is
\* allocated and filled from buf
TensorOf(d, id) ==
    [dim |-> d, strides |-> computeStrides(d), is_contiguous |-> TRUE,
     data |-> [buf |-> id, off |-> 0]]

\* the run starts with one tensor constructed, alone or with a copy of it
\* made by the copy constructor
InitShared ==
    /\ \E d \in SharedDims, copied \in BOOLEAN :
          /\ heap = Allocate(<<>>, Fill(0, getDataLen(d)))
          /\ ts = [s \in Slots |->
                     IF s = 1 \/ (s = 2 /\ copied) THEN TensorOf(d, 1)
                     ELSE NoObject]
    /\ nbuf = 1
    /\ clonedFrom = [s \in Slots |-> 0]
    /\ last = [op |-> "construct", dst |-> 1, src |-> 0, ok |-> TRUE,
               e |-> 0, v |-> 0, n |-> 0]
    /\ LegacyIdle

Construct(s, d) ==
    /\ MoreOps
    /\ Free # {}
    /\ s = NewSlot
    /\ nbuf < MaxAlloc
    /\ heap' = Allocate(heap, Fill(nbuf, getDataLen(d)))
    /\ nbuf' = nbuf + 1
    /\ ts' = [ts EXCEPT ![s] = TensorOf(d, nbuf + 1)]
    /\ clonedFrom' = [clonedFrom EXCEPT ![s] = 0]
    /\ last' = Did("construct", s, 0, TRUE)
    /\ UNCHANGED legacyVars

\* Tensor(const Tensor &rhs) = default: every member is copied, the
\* shared_ptr among them
copyConstruct_deep(hp, rhs) ==
    [t |-> [rhs EXCEPT !.data = [buf |-> Len(hp) + 1, off |-> 0]],
     heap |-> Allocate(hp, Visible(hp, rhs))]

copyConstruct(hp, rhs) == [t |-> rhs, heap |-> hp]

CopyConstruct(dst, src) ==
    /\ MoreOps
    /\ Free # {}
    /\ dst = NewSlot
    /\ Live(src)
    /\ LET r == copyConstruct(heap, ts[src])
       IN  /\ Len(r.heap) <= MaxAlloc
           /\ ts' = [ts EXCEPT ![dst] = r.t]
           /\ heap' = r.heap
           /\ nbuf' = Len(r.heap)
    /\ clonedFrom' = [clonedFrom EXCEPT ![dst] = 0]
    /\ last' = Did("copyConstruct", dst, src, TRUE)
    /\ UNCHANGED legacyVars

\* Tensor &operator=(const Tensor &rhs) = default
CopyAssign(dst, src) ==
    /\ MoreOps
    /\ Live(dst)
    /\ Live(src)
    /\ dst # src
    /\ LET r == copyConstruct(heap, ts[src])
           objs == [ts EXCEPT ![dst] = r.t]
       IN  /\ Len(r.heap) <= MaxAlloc
           /\ ts' = objs
           /\ heap' = Collect(r.heap, objs)
           /\ nbuf' = Len(r.heap)
    /\ clonedFrom' = [clonedFrom EXCEPT ![dst] = 0]
    /\ last' = Did("copyAssign", dst, src, TRUE)
    /\ UNCHANGED legacyVars

\* Tensor::clone(): an independent copy of the elements
clone_shared(hp, t) == [t |-> t, heap |-> hp]

clone(hp, t) ==
    [t |-> [t EXCEPT !.data = [buf |-> Len(hp) + 1, off |-> 0]],
     heap |-> Allocate(hp, Visible(hp, t))]

Clone(dst, src) ==
    /\ MoreOps
    /\ Free # {}
    /\ dst = NewSlot
    /\ Live(src)
    /\ nbuf < MaxAlloc
    /\ LET r == clone(heap, ts[src])
       IN  /\ ts' = [ts EXCEPT ![dst] = r.t]
           /\ heap' = r.heap
           /\ nbuf' = Len(r.heap)
    /\ clonedFrom' = [clonedFrom EXCEPT ![dst] = ts[src].data.buf]
    /\ last' = Did("clone", dst, src, TRUE)
    /\ UNCHANGED legacyVars

\* Tensor::getSharedDataTensor(dim, offset): a view of dim's shape into the
\* origin's buffer, `offset` elements on; rejected when it would reach past
\* the origin's elements
fitsOrigin_strict(t, d, offset) == offset + getDataLen(d) < length(t)

fitsOrigin(t, d, offset) == offset + getDataLen(d) <= length(t)

getSharedDataTensor(t, d, offset) ==
    IF fitsOrigin(t, d, offset)
    THEN [ok |-> TRUE,
          t |-> [dim |-> d, strides |-> computeStrides(d),
                 is_contiguous |-> t.is_contiguous,
                 data |-> [buf |-> t.data.buf, off |-> t.data.off + offset]]]
    ELSE [ok |-> FALSE, t |-> NoObject]

\* Tensor::getBatchSlice(offset, size): the batches offset .. offset+size-1
getBatchSlice(t, offset, size) ==
    getSharedDataTensor(t, <<size, t.dim[2], t.dim[3], t.dim[4]>>,
                        offset * getFeatureLen(t.dim))

\* Tensor::Map(std::shared_ptr<float> buf, const TensorDim &d, int offset):
\* a tensor on the given buffer, not a copy of it
Map(buf, d, offset) ==
    IF buf = nullptr
    THEN [ok |-> FALSE, t |-> NoObject]
    ELSE [ok |-> TRUE,
          t |-> [dim |-> d, strides |-> computeStrides(d),
                 is_contiguous |-> TRUE,
                 data |-> [buf |-> buf.buf, off |-> buf.off + offset]]]

\* the shapes views are asked for: one batch of one row
ViewDims == {d \in SharedDims : d[1] = 1 /\ d[3] = 1}

\* dst receives the view r of src's buffer, when r was accepted; `offset` is
\* the offset the caller asked for, kept for a view that was made
TakeView(op, dst, src, offset, r) ==
    /\ ts' = [ts EXCEPT ![dst] = r.t]
    /\ clonedFrom' = [clonedFrom EXCEPT ![dst] = 0]
    /\ last' = [Did(op, dst, src, r.ok) EXCEPT !.e = IF r.ok THEN offset ELSE 0]
    /\ UNCHANGED <<heap, nbuf>>
    /\ UNCHANGED legacyVars

GetBatchSlice(dst, src) ==
    /\ MoreOps
    /\ Free # {}
    /\ dst = NewSlot
    /\ Live(src)
    /\ \E offset \in 0..MaxLen, size \in 1..MaxLen :
          TakeView("getBatchSlice", dst, src, offset,
                   getBatchSlice(ts[src], offset, size))

GetSharedDataTensor(dst, src) ==
    /\ MoreOps
    /\ Free # {}
    /\ dst = NewSlot
    /\ Live(src)
    /\ \E d \in ViewDims, offset \in 0..MaxLen :
          TakeView("getSharedDataTensor", dst, src, offset,
                   getSharedDataTensor(ts[src], d, offset))

\* Tensor::Map on the buffer another tensor holds; the caller keeps the view
\* inside the buffer
MapShared(dst, src) ==
    /\ MoreOps
    /\ Free # {}
    /\ dst = NewSlot
    /\ Live(src)
    /\ \E d \in ViewDims, offset \in 0..MaxLen :
          /\ ts[src].data.off + offset + getDataLen(d)
               <= Len(heap[ts[src].data.buf].cells)
          /\ TakeView("Map", dst, src, offset, Map(ts[src].data, d, offset))

\* Tensor::setValue(b, c, h, w, value):
\* data.get()[getIndex(b, c, h, w)] = value
setValue(hp, t, b, c, h, w, value) ==
    [hp EXCEPT ![t.data.buf].cells[t.data.off + getIndex(t, b, c, h, w) + 1]
                 = value]

SetValue(s) ==
    /\ MoreOps
    /\ Live(s)
    /\ \E x \in Coords(ts[s].dim), value \in Values :
          /\ heap' = setValue(heap, ts[s], x[1], x[2], x[3], x[4], value)
          /\ last' = [Did("setValue", s, 0, TRUE) EXCEPT
                         !.e = getIndex(ts[s], x[1], x[2], x[3], x[4]),
                         !.v = value]
    /\ UNCHANGED <<ts, nbuf, clonedFrom>>
    /\ UNCHANGED legacyVars

\* Tensor::reshape(const TensorDim &d): the shape and its strides are
\* replaced in place when d has as many elements as the tensor; otherwise
\* std::invalid_argument, and the tensor is as it was
sameCount_any(t, d) == TRUE

sameCount(t, d) == getDataLen(d) = length(t)

reshape(t, d) ==
    IF sameCount(t, d)
    THEN [ok |-> TRUE, t |-> [t EXCEPT !.dim = d, !.strides = computeStrides(d)]]
    ELSE [ok |-> FALSE, t |-> t]

Reshape(s) ==
    /\ MoreOps
    /\ Live(s)
    /\ \E d \in SharedDims :
          LET r == reshape(ts[s], d)
          IN  /\ ts' = [ts EXCEPT ![s] = r.t]
              /\ last' = Did("reshape", s, 0, r.ok)
    /\ UNCHANGED <<heap, nbuf, clonedFrom>>
    /\ UNCHANGED legacyVars

\* friend void swap(Tensor &lhs, Tensor &rhs): dim, data, strides and
\* is_contiguous change places
swap_keepStrides(lhs, rhs) ==
    [lhs |-> [rhs EXCEPT !.strides = lhs.strides],
     rhs |-> [lhs EXCEPT !.strides = rhs.strides]]

swap(lhs, rhs) ==
    [lhs |-> [dim |-> rhs.dim, data |-> rhs.data, strides |-> rhs.strides,
              is_contiguous |-> rhs.is_contiguous],
     rhs |-> [dim |-> lhs.dim, data |-> lhs.data, strides |-> lhs.strides,
              is_contiguous |-> lhs.is_contiguous]]

Swap(a, b) ==
    /\ MoreOps
    /\ Live(a)
    /\ Live(b)
    /\ a < b
    /\ LET r == swap(ts[a], ts[b])
       IN  ts' = [ts EXCEPT ![a] = r.lhs, ![b] = r.rhs]
    /\ clonedFrom' = [clonedFrom EXCEPT ![a] = clonedFrom[b],
                                        ![b] = clonedFrom[a]]
    /\ last' = Did("swap", a, b, TRUE)
    /\ UNCHANGED <<heap, nbuf>>
    /\ UNCHANGED legacyVars

\* ~Tensor(): the object goes, and its buffer with the last holder
Destroy(s) ==
    /\ MoreOps
    /\ Live(s)
    /\ LET objs == [ts EXCEPT ![s] = NoObject]
       IN  /\ ts' = objs
           /\ heap' = Collect(heap, objs)
    /\ clonedFrom' = [clonedFrom EXCEPT ![s] = 0]
    /\ last' = Did("destroy", s, 0, TRUE)
    /\ UNCHANGED nbuf
    /\ UNCHANGED legacyVars

NextShared ==
    \/ \E s \in Slots, d \in SharedDims : Construct(s, d)
    \/ \E dst \in Slots, src \in Slots : CopyConstruct(dst, src)
    \/ \E dst \in Slots, src \in Slots : CopyAssign(dst, src)
    \/ \E dst \in Slots, src \in Slots : Clone(dst, src)
    \/ \E dst \in Slots, src \in Slots : GetBatchSlice(dst, src)
    \/ \E dst \in Slots, src \in Slots : GetSharedDataTensor(dst, src)
    \/ \E dst \in Slots, src \in Slots : MapShared(dst, src)
    \/ \E s \in Slots : SetValue(s)
    \/ \E s \in Slots : Destroy(s)

SpecShared == InitShared /\ [][NextShared]_vars

\* the operations that make a tensor or give it another shape
NextShape ==
    \/ \E s \in Slots, d \in SharedDims : Construct(s, d)
    \/ \E dst \in Slots, src \in Slots : CopyConstruct(dst, src)
    \/ \E dst \in Slots, src \in Slots : CopyAssign(dst, src)
    \/ \E s \in Slots : Reshape(s)
    \/ \E a \in Slots, b \in Slots : Swap(a, b)
    \/ \E s \in Slots : Destroy(s)

SpecShape == InitShared /\ [][NextShape]_vars

(***************************************************************************)
(* The activation functions.  Tensor::softmax() of the 3-axis tensor and   *)
(* ActivationLayer::softmax both exponentiate, so their results are kept   *)
(* exactly: a float that came out of exp, + and / is a quotient of two     *)
(* sums of powers of e, each sum the sequence of its exponents; what the   *)
(* float format cannot hold is inf, and inf / inf is nan.  The logits are  *)
(* whole numbers, none between 89 and 709 and none between -745 and -104,  *)
(* where expf and exp differ in what they overflow.                        *)
(***************************************************************************)
Fin(num, den) == [kind |-> "fin", num |-> num, den |-> den]

Inf == [kind |-> "inf", num |-> <<>>, den |-> <<>>]

NaN == [kind |-> "nan", num |-> <<>>, den |-> <<>>]

\* 0.0f
Zero == Fin(<<>>, <<0>>)

\* exp(x) as a float: inf above the format's range, 0 below it
exp(x) ==
    IF x > 88 THEN Inf ELSE IF x < -103 THEN Zero ELSE Fin(<<x>>, <<0>>)

\* a + b for two sums of exponentials
plus(a, b) ==
    IF a.kind = "nan" \/ b.kind = "nan" THEN NaN
    ELSE IF a.kind = "inf" \/ b.kind = "inf" THEN Inf
    ELSE Fin(a.num \o b.num, <<0>>)

\* a / b for two sums of exponentials
divides(a, b) ==
    IF a.kind = "nan" \/ b.kind = "nan" THEN NaN
    ELSE IF b.kind = "inf" THEN (IF a.kind = "inf" THEN NaN ELSE Zero)
    ELSE IF b.num = <<>> THEN (IF a.kind = "inf" \/ a.num # <<>> THEN Inf ELSE NaN)
    ELSE IF a.kind = "inf" THEN Inf
    ELSE Fin(a.num, b.num)

RECURSIVE ExpSum(_, _, _)
\* divisor += exp(data[from + j]) for j = 0 .. n-1, from 0.0
ExpSum(data, from, n) ==
    IF n <= 0 THEN Zero
    ELSE plus(ExpSum(data, from, n - 1), exp(data[from + n]))

\* Tensor Tensor::softmax() const, of the 3-axis tensor: each row of `width`
\* elements is divided by the sum of its exponentials
Tensor_softmax(t) ==
    WithData(Tensor3(t.batch, t.height, t.width),
        [p \in 1..(t.batch * t.height * t.width) |->
            LET id == p - 1
                k == id \div (t.height * t.width)
                i == (id % (t.height * t.width)) \div t.width
            IN  divides(exp(t.data[p]),
                        ExpSum(t.data, k * t.height * t.width + i * t.width,
                               t.width))])

\* a 4-axis tensor by value: its TensorDim and its elements in row-major
\* order
Variable(d, data) == [dim |-> d, data |-> data]

\* TensorDim(): every axis 1
TensorDim == <<1, 1, 1, 1>>

uninitialized(t) == t.data = <<>>

RECURSIVE max_element(_, _, _)
\* *std::max_element(dp + from, dp + from + n)
max_element(dp, from, n) ==
    IF n <= 1 THEN dp[from + 1]
    ELSE LET r == max_element(dp, from, n - 1)
         IN  IF dp[from + n] > r THEN dp[from + n] ELSE r

RECURSIVE Accumulate(_, _, _)
\* data[from] + ... + data[from + n - 1], from 0.0
Accumulate(data, from, n) ==
    IF n = 0 THEN Zero
    ELSE plus(Accumulate(data, from, n - 1), data[from + n])

\* Tensor::sum_by_batch(): one sum per batch, over the batch's features
sum_by_batch(data, batch, feat_len) ==
    [k \in 1..batch |-> Accumulate(data, (k - 1) * feat_len, feat_len)]

\* Tensor &ActivationLayer::softmax(Tensor const &t, Tensor &output)
softmax(t) ==
    LET batch == t.dim[1]
        feat_len == getFeatureLen(t.dim)
        n == Len(t.data)
        divisor == [p \in 1..n |->
                       t.data[p] - max_element(t.data,
                                       ((p - 1) \div feat_len) * feat_len,
                                       feat_len)]
        exps == [p \in 1..n |-> exp(divisor[p])]
        sums == sum_by_batch(exps, batch, feat_len)
    IN  Variable(t.dim,
            [p \in 1..n |-> divides(exps[p], sums[((p - 1) \div feat_len) + 1])])

RECURSIVE JacobianSum(_, _, _, _, _, _)
\* the inner loop of softmaxPrime: sum of val for l = 0 .. n-1
JacobianSum(xp, d, is_derivative, I, j, n) ==
    IF n = 0 THEN 0
    ELSE LET l == n - 1
             val == IF j = l THEN xp[I + l + 1] * (1 - xp[I + j + 1])
                    ELSE (0 - xp[I + l + 1]) * xp[I + j + 1]
         IN  JacobianSum(xp, d, is_derivative, I, j, n - 1)
                 + (IF is_derivative THEN val * d[I + l + 1] ELSE val)

\* the cells the loops of softmaxPrime visit, and the element each writes
PrimeCells(dim) ==
    (0..(dim[1] - 1)) \X (0..(dim[2] - 1)) \X (0..(dim[3] - 1))
        \X (0..(dim[4] - 1))

PrimeRow(dim, v) ==
    v[1] * dim[2] * dim[3] * dim[4] + v[2] * dim[3] * dim[4] + v[3] * dim[4]

\* Tensor &ActivationLayer::softmaxPrime(Tensor const &x, Tensor &output,
\*                                       Tensor const &derivative)
\* `writes` counts the assignments pp[I + j] = sum each element received
softmaxPrime(x, output, derivative) ==
    LET o == IF uninitialized(output)
             THEN Variable(x.dim, Zeros(getDataLen(x.dim))) ELSE output
        is_derivative == derivative.dim # TensorDim
        Writers(p) == {v \in PrimeCells(x.dim) : PrimeRow(x.dim, v) + v[4] = p - 1}
    IN  [x |-> x, derivative |-> derivative,
         writes |-> [p \in 1..Len(o.data) |-> Cardinality(Writers(p))],
         output |->
            Variable(o.dim,
                [p \in 1..Len(o.data) |->
                    IF Writers(p) = {} THEN o.data[p]
                    ELSE LET v == CHOOSE v \in Writers(p) : TRUE
                         IN  JacobianSum(x.data, derivative.data,
                                 is_derivative, PrimeRow(x.dim, v), v[4],
                                 x.dim[4])])]

\* float ActivationLayer::relu(float x)
relu(x) == IF x <= 0 THEN 0 ELSE x

reluPrime_atZero(x) == IF x < 0 THEN 0 ELSE 1

\* float ActivationLayer::reluPrime(float x)
reluPrime(x) == IF x <= 0 THEN 0 ELSE 1

\* Tensor::apply(f, output): f element by element
apply_relu(x) == Variable(x.dim, [p \in 1..Len(x.data) |-> relu(x.data[p])])

apply_reluPrime(x) ==
    Variable(x.dim, [p \in 1..Len(x.data) |-> reluPrime(x.data[p])])

\* Tensor::multiply(m, output): element by element
multiply_elementwise(a, b) ==
    Variable(a.dim, [p \in 1..Len(a.data) |-> a.data[p] * b.data[p]])

\* the shapes and the contents the layer is run on
ActDims == (1..MaxDim) \X (1..2) \X (1..MaxDim) \X (1..MaxDim)

LogitSeeds == {0, 1, 2}

\* whole logits; seed 2 has 1000 in every other place
Logits(seed, n) ==
    [i \in 1..n |->
        IF seed = 2 THEN 1000 * (i % 2) ELSE ((i * (seed + 2)) % 4) - 1]

Variables(S) == {Variable(d, Fill(s, getDataLen(d))) : d \in ActDims, s \in S}

\* one call of the layer: the input and what the call left in the layer's
\* tensors
Activated(opname, x, hidden, deriv, ret, writes) ==
    [op |-> opname, recv |-> "layer", value |-> x, status |-> "ok",
     oob |-> FALSE, t |-> hidden, deriv |-> deriv, ret |-> ret,
     writes |-> writes]

NoVariable == Variable(TensorDim, <<>>)

TensorSoftmax ==
    /\ NoCallYet
    /\ \E b \in 1..MaxBatch, h \in 1..MaxDim, w \in 1..MaxDim,
          s \in LogitSeeds :
          LET t == WithData(Tensor3(b, h, w), Logits(s, b * h * w))
          IN  out' = Activated("Tensor::softmax", t, Tensor_softmax(t),
                               NoVariable, NoVariable, <<>>)
    /\ UNCHANGED <<blas, self, m>>
    /\ UNCHANGED sharedVars

\* forwarding() of a layer set to ACT_SOFTMAX
Softmax ==
    /\ NoCallYet
    /\ \E d \in ActDims, s \in LogitSeeds :
          LET x == Variable(d, Logits(s, getDataLen(d)))
          IN  out' = Activated("softmax", x, softmax(x),
                               NoVariable, NoVariable, <<>>)
    /\ UNCHANGED <<blas, self, m>>
    /\ UNCHANGED sharedVars

\* softmaxPrime on a hidden state x and an upstream gradient of x's shape,
\* or on a default-constructed gradient
SoftmaxPrime ==
    /\ NoCallYet
    /\ \E x \in Variables(Seeds) :
          \E deriv \in {Variable(x.dim, Fill(s, getDataLen(x.dim))) :
                              s \in RightSeeds}
                          \cup {Variable(TensorDim, <<2>>)} :
              LET r == softmaxPrime(x, NoVariable, deriv)
              IN  out' = Activated("softmaxPrime", r.x, x, r.derivative,
                                   r.output, r.writes)
    /\ UNCHANGED <<blas, self, m>>
    /\ UNCHANGED sharedVars

\* void ActivationLayer::forwarding(), the layer set to ACT_RELU
Forwarding ==
    /\ NoCallYet
    /\ \E x \in Variables(Seeds) :
          out' = Activated("forwarding", x, apply_relu(x),
                           NoVariable, NoVariable, <<>>)
    /\ UNCHANGED <<blas, self, m>>
    /\ UNCHANGED sharedVars

\* void ActivationLayer::calcDerivative(), the layer set to ACT_RELU: the
\* hidden state is replaced by reluPrime of itself, and the returned
\* gradient is the upstream gradient times it
CalcDerivative ==
    /\ out.op = "forwarding"
    /\ \E s \in RightSeeds :
          LET deriv == Variable(out.t.dim, Fill(s, Len(out.t.data)))
              hidden == apply_reluPrime(out.t)
          IN  out' = Activated("calcDerivative", out.value, hidden, deriv,
                               multiply_elementwise(deriv, hidden), <<>>)
    /\ UNCHANGED <<blas, self, m>>
    /\ UNCHANGED sharedVars

NextActivation ==
    \/ TensorSoftmax
    \/ Softmax
    \/ SoftmaxPrime
    \/ Forwarding
    \/ CalcDerivative

SpecActivation == InitCalls /\ [][NextActivation]_vars

(***************************************************************************)
(* The activation layer as an object: the pair of functions setActivation  *)
(* installed, and the tensors forwarding() and calcDerivative() work on.   *)
(* tanh and sigmoid are not computed: an element is the number x the       *)
(* functions `fs` were applied to, in that order; relu, no_op and their    *)
(* derivatives are computed on a number.                                   *)
(***************************************************************************)
MaxCalls == 4

Supported == {"ACT_TANH", "ACT_SIGMOID", "ACT_SOFTMAX", "ACT_RELU", "ACT_NONE"}

\* the selectors a caller can pass: the enumerators and a value outside them
Selectors == Supported \cup {"ACT_UNKNOWN", "out_of_enum"}

\* the pair each case of the switch installs
Installed(fn, prime) == [act_fn |-> fn, act_prime_fn |-> prime]

NotInstalled == Installed("", "")

PairOf(acti_type) ==
    CASE acti_type = "ACT_TANH" -> Installed("tanhFloat", "tanhPrime")
      [] acti_type = "ACT_SIGMOID" -> Installed("sigmoid", "sigmoidPrime")
      [] acti_type = "ACT_SOFTMAX" -> Installed("softmax", "softmaxPrime")
      [] acti_type = "ACT_RELU" -> Installed("relu", "reluPrime")
      [] acti_type = "ACT_NONE" -> Installed("no_op", "no_op_prime")

\* what the default label of the switch throws
thrown == "std::runtime_error"

\* void ActivationLayer::setActivation(ActivationType acti_type), after
\* Layer::setActivation(acti_type) has returned
setActivation(fns, acti_type) ==
    IF acti_type \in Supported
    THEN [status |-> "ok", fns |-> PairOf(acti_type)]
    ELSE [status |-> thrown, fns |-> fns]

\* Layer::setActivation(acti_type), called first: it accepts the selector,
\* or rejects an unsupported one
Layer_setActivation(acti_type) ==
    IF acti_type \in Supported THEN {"ok"} ELSE {"ok", "std::invalid_argument"}

Term(x) == [fs |-> <<>>, x |-> x]

Terms(data) == [p \in DOMAIN data |-> Term(data[p])]

\* f(y) for one element y
applyFn(f, y) ==
    CASE f = "no_op" -> y
      [] f = "no_op_prime" -> Term(1)
      [] f = "relu" /\ y.fs = <<>> -> Term(relu(y.x))
      [] f = "reluPrime" /\ y.fs = <<>> -> Term(reluPrime(y.x))
      [] OTHER -> [fs |-> Append(y.fs, f), x |-> y.x]

\* Tensor::apply(f, output)
apply(f, data) == [p \in DOMAIN data |-> applyFn(f, data[p])]

\* Tensor::multiply(m, output), element by element
multiplyBy(deriv, data) ==
    [p \in DOMAIN data |-> [d |-> deriv[p], y |-> data[p]]]

\* the layer: its functions, net_input[0] and net_hidden[0] (variable and
\* gradient each), the hidden variable as forwarding() left it, and the
\* number of calls made
Layer(opname, sel, status, fns, input, hidden, forward, deriv, ret, n) ==
    [op |-> opname, recv |-> "layer", value |-> sel, status |-> status,
     oob |-> FALSE, t |-> NoTensor, fns |-> fns, input |-> input,
     hidden |-> hidden, forward |-> forward, deriv |-> deriv, ret |-> ret,
     n |-> n]

InitLayer ==
    /\ out = Layer("construct", "", "ok", NotInstalled, <<>>, <<>>, <<>>,
                   <<>>, <<>>, 0)
    /\ blas = FALSE
    /\ self = NoTensor
    /\ m = NoTensor
    /\ SharedIdle

MoreCalls == out.n < MaxCalls

SetActivation ==
    /\ MoreCalls
    /\ \E acti_type \in Selectors :
       \E base \in Layer_setActivation(acti_type) :
          LET r == IF base = "ok" THEN setActivation(out.fns, acti_type)
                   ELSE [status |-> base, fns |-> out.fns]
          IN  out' = [out EXCEPT !.op = "setActivation", !.value = acti_type,
                                 !.status = r.status, !.fns = r.fns,
                                 !.n = out.n + 1]
    /\ UNCHANGED <<blas, self, m>>
    /\ UNCHANGED sharedVars

forwarding_inPlace(fns, input) ==
    IF fns.act_fn = "softmax"
    THEN [input |-> softmax(input).data, hidden |-> softmax(input).data]
    ELSE LET y == apply(fns.act_fn, Terms(input.data))
         IN  [input |-> y, hidden |-> y]

\* void ActivationLayer::forwarding(): _act_fn(input, hidden_)
forwarding(fns, input) ==
    IF fns.act_fn = "softmax"
    THEN [input |-> Terms(input.data), hidden |-> softmax(input).data]
    ELSE [input |-> Terms(input.data),
          hidden |-> apply(fns.act_fn, Terms(input.data))]

\* the inputs handed to the layer: one batch of one row per channel
LayerInputs ==
    {x \in Variables(Seeds) : x.dim[1] = 1 /\ x.dim[3] = 1}

LayerForwarding ==
    /\ MoreCalls
    /\ out.fns # NotInstalled
    /\ \E x \in LayerInputs :
          LET r == forwarding(out.fns, x)
          IN  out' = [out EXCEPT !.op = "forwarding", !.value = Terms(x.data),
                                 !.status = "ok", !.input = r.input,
                                 !.hidden = r.hidden, !.forward = r.hidden,
                                 !.n = out.n + 1]
    /\ UNCHANGED <<blas, self, m>>
    /\ UNCHANGED sharedVars

\* void ActivationLayer::calcDerivative(): ret = _act_prime_fn(in, ret, deriv)
\* For a pair of float functions _act_prime_fn is
\*     x = x.apply(activation_prime_fn, x);
\*     ret_derivative = derivative.multiply(x, ret_derivative);
\* and for softmax it is softmaxPrime itself, kept here as the product of
\* the Jacobian at the hidden variable and the gradient
calcDerivative(fns, hidden, deriv) ==
    IF fns.act_prime_fn = "softmaxPrime"
    THEN [hidden |-> hidden,
          ret |-> [p \in DOMAIN hidden |-> [d |-> deriv, y |-> hidden]]]
    ELSE LET x == apply(fns.act_prime_fn, hidden)
         IN  [hidden |-> x, ret |-> multiplyBy(deriv, x)]

LayerCalcDerivative ==
    /\ MoreCalls
    /\ out.op \in {"forwarding", "calcDerivative"}
    /\ \E s \in RightSeeds :
          LET deriv == Fill(s, Len(out.hidden))
              r == calcDerivative(out.fns, out.hidden, deriv)
          IN  out' = [out EXCEPT !.op = "calcDerivative", !.status = "ok",
                                 !.hidden = r.hidden, !.deriv = deriv,
                                 !.ret = r.ret, !.n = out.n + 1]
    /\ UNCHANGED <<blas, self, m>>
    /\ UNCHANGED sharedVars

NextLayer ==
    \/ SetActivation
    \/ LayerForwarding
    \/ LayerCalcDerivative

SpecLayer == InitLayer /\ [][NextLayer]_vars

(***************************************************************************)
(* The DeepQ example, src/DeepQ/main.cpp: the episode loop of main, its    *)
(* replay queue expQ and the training round that samples it.  The          *)
(* environment is the Gym server: each step it answers with a reward and   *)
(* with whether the episode is over, both chosen freely here.  The         *)
(* program's constants are scaled down; the code compares against them     *)
(* and never depends on their magnitude.                                   *)
(***************************************************************************)
\* #define REPLAY_MEMORY 50000
REPLAY_MEMORY == 2

\* #define MINI_BATCH 30
MINI_BATCH == 2

\* #define MAX_EPISODS 50000
MAX_EPISODS == 3

\* if (step_count > 10000) break;
MaxStepCount == 2

\* for (int iter = 0; iter < 50; iter++)
TrainIters == 2

\* #define TRAINING true
TRAINING == TRUE

\* next_s.reward as the environment reports it.
Rewards == {0, 1}

\* An Experience.  `serial` numbers the environment steps of the run, it
\* stands for the observations ex.state and ex.next_state of that step.
Experience(serial, reward, done) ==
    [serial |-> serial, reward |-> reward, done |-> done]

DeepQ(opname, pc, episode, step_count, done, expQ, steps, iter, in_Exp, Qsize) ==
    [op |-> opname, pc |-> pc, episode |-> episode,
     step_count |-> step_count, done |-> done, expQ |-> expQ,
     steps |-> steps, iter |-> iter, in_Exp |-> in_Exp, Qsize |-> Qsize]

InitDeepQ ==
    /\ out = DeepQ("main", "episode", 0, 0, FALSE, <<>>, 0, 0, <<>>, 0)
    /\ blas = FALSE
    /\ self = NoTensor
    /\ m = NoTensor
    /\ SharedIdle

\* The draws of rangeRandom(0, Q.size() - 1) that getMiniBatch keeps: `count`
\* distinct indices, in the order they were drawn.
Draws(size, count) ==
    {mem \in [1..count -> 0..(size - 1)] :
        \A i, j \in 1..count : i # j => mem[i] # mem[j]}

\* getMiniBatch(Q): min(MINI_BATCH, Q.size()) experiences of Q at distinct
\* random positions; every outcome the random draws allow.
getMiniBatch(Q) ==
    LET min == IF MINI_BATCH < Len(Q) THEN MINI_BATCH ELSE Len(Q)
    IN  {[i \in 1..min |-> Q[mem[i] + 1]] : mem \in Draws(Len(Q), min)}

\* What follows the while loop of one episode: the two breaks out of the
\* episode loop, the training round of every tenth episode, or the next
\* episode.
AfterEpisode(d, step_count) ==
    IF step_count > MaxStepCount THEN "exit"
    ELSE IF ~TRAINING /\ d THEN "exit"
    ELSE IF out.episode % 10 = 1 /\ TRAINING THEN "train"
    ELSE "episode"

\* for (episode ...) { ...; env->reset(&s);
Reset ==
    /\ out.pc = "episode"
    /\ out.episode < MAX_EPISODS
    /\ out' = [out EXCEPT !.op = "reset", !.pc = "step", !.done = FALSE,
                          !.step_count = 0]
    /\ UNCHANGED <<blas, self, m>>
    /\ UNCHANGED sharedVars

\* One pass of while (!done): the environment step, the eviction, the
\* penalty of a finished episode, the push, and the exits of the loop.
Step ==
    /\ out.pc = "step"
    /\ \E reward \in Rewards, d \in BOOLEAN :
          LET popped == IF Len(out.expQ) > REPLAY_MEMORY
                        THEN Tail(out.expQ) ELSE out.expQ
              ex == Experience(out.steps + 1, IF d THEN -100 ELSE reward, d)
              leaves == d /\ ~TRAINING
              pushed == IF leaves THEN popped ELSE Append(popped, ex)
              count == IF leaves THEN out.step_count ELSE out.step_count + 1
              over == leaves \/ count > MaxStepCount \/ d
              pc == IF over THEN AfterEpisode(d, count) ELSE "step"
          IN  out' = [out EXCEPT !.op = "step", !.pc = pc, !.done = d,
                                 !.expQ = pushed, !.step_count = count,
                                 !.steps = out.steps + 1,
                                 !.iter = 0,
                                 !.episode = IF pc = "episode"
                                             THEN out.episode + 1
                                             ELSE out.episode]
    /\ UNCHANGED <<blas, self, m>>
    /\ UNCHANGED sharedVars

\* One iteration of the training round: the mini batch is drawn from expQ.
\* After the last iteration the episode loop goes on.
Train ==
    /\ out.pc = "train"
    /\ out.iter < TrainIters
    /\ \E in_Exp \in getMiniBatch(out.expQ) :
          LET last_iter == out.iter + 1 = TrainIters
          IN  out' = [out EXCEPT !.op = "getMiniBatch", !.in_Exp = in_Exp,
                                 !.Qsize = Len(out.expQ),
                                 !.iter = out.iter + 1,
                                 !.pc = IF last_iter THEN "episode" ELSE "train",
                                 !.episode = IF last_iter THEN out.episode + 1
                                             ELSE out.episode]
    /\ UNCHANGED <<blas, self, m>>
    /\ UNCHANGED sharedVars

\* The episode loop ran MAX_EPISODS episodes: writeFile.close(); return 0;
Return ==
    /\ out.pc = "episode"
    /\ out.episode >= MAX_EPISODS
    /\ out' = [out EXCEPT !.op = "return", !.pc = "exit"]
    /\ UNCHANGED <<blas, self, m>>
    /\ UNCHANGED sharedVars

NextDeepQ == Reset \/ Step \/ Train \/ Return

SpecDeepQ == InitDeepQ /\ [][NextDeepQ]_vars

(***************************************************************************)
(* Properties of the 3-axis Tensor.                                        *)
(***************************************************************************)
\* The Tensor invariant of the data model: the buffer holds exactly the
\* elements of the shape.
WellFormed(t) ==
    /\ t.batch >= 1 /\ t.height >= 1 /\ t.width >= 1
    /\ t.len = t.batch * t.height * t.width
    /\ Len(t.data) = t.len

SameShape(a, b) ==
    a.batch = b.batch /\ a.height = b.height /\ a.width = b.width

\* Tensor::getValue(int batch, int h, int w)
At(t, k, i, j) == t.data[k * t.height * t.width + i * t.width + j + 1]

Cells(t) == (0..(t.batch - 1)) \X (0..(t.height - 1)) \X (0..(t.width - 1))

ArithOps == {"add", "subtract", "multiply", "divide"}

\* C1: every tensor with a buffer has a buffer length and a stored element
\* count equal to the product of its shape's axis sizes, in every state
\* reached by constructing tensors and applying operations, copy included.
C1_BufferMatchesShape ==
    /\ WellFormed(self)
    /\ WellFormed(m)
    /\ out.t # NoTensor => WellFormed(out.t)

\* the right operand's size is, on every axis, the left's or 1
Broadcastable(a, b) ==
    /\ b.batch = a.batch \/ b.batch = 1
    /\ b.height = a.height \/ b.height = 1
    /\ b.width = a.width \/ b.width = 1

\* C2: add, subtract, multiply and divide succeed exactly when on every axis
\* the two sizes are equal or the right operand's is 1, and fail with a
\* dimension mismatch in every other case.  (An operation is taken to
\* succeed when its dimension check lets it through.)
C2_ArithmeticFailsExactlyOnMismatch ==
    (out.op \in ArithOps /\ out.recv = "this" /\ WellFormed(self)) =>
        IF Broadcastable(self, m)
        THEN out.status # "assert"
        ELSE out.status = "assert" /\ out.t = NoTensor

\* m is one batch of the height and width of a
SingleBatchOf(a, b) ==
    b.batch = 1 /\ b.height = a.height /\ b.width = a.width

\* C3: add(m), m of batch size 1 and of the left operand's height and width:
\* the result has the left operand's shape and its element (k,i,j) is
\* left(k,i,j) + m(0,i,j), for every batch k.
C3_AddBroadcastsSingleBatch ==
    (out.op = "add" /\ out.recv = "this" /\ WellFormed(self)
       /\ SingleBatchOf(self, m)) =>
        /\ out.status = "ok"
        /\ ~out.oob
        /\ SameShape(out.t, self)
        /\ WellFormed(out.t)
        /\ \A c \in Cells(self) :
              At(out.t, c[1], c[2], c[3])
                = At(self, c[1], c[2], c[3]) + At(m, 0, c[2], c[3])

C3_Witness ==
    /\ out.op = "add" /\ out.recv = "this" /\ out.status = "ok"
    /\ WellFormed(self) /\ SingleBatchOf(self, m)
    /\ self.batch >= 2 /\ self.height * self.width >= 2
    /\ \E c \in Cells(self) : At(m, 0, c[2], c[3]) # 0

\* the signed sum of batch k of t
BatchSum(t, k) ==
    SumSeq(t.data, k * t.height * t.width, t.height * t.width, 0)

\* C4: sum_by_batch returns a (batch,1,1) tensor whose element k is the
\* signed sum of the height*width elements of batch k, in both builds,
\* writing only inside the result's buffer.
C4_SumByBatch ==
    (out.op = "sum" /\ WellFormed(self)) =>
        /\ out.status = "ok"
        /\ ~out.oob
        /\ out.t.batch = self.batch /\ out.t.height = 1 /\ out.t.width = 1
        /\ WellFormed(out.t)
        /\ \A k \in 0..(self.batch - 1) : At(out.t, k, 0, 0) = BatchSum(self, k)

RECURSIVE MatCell(_, _, _, _, _, _, _)
\* element (i,j) of the product of batch ka of a with batch kb of b, summed
\* over the first n inner indices
MatCell(a, ka, b, kb, i, j, n) ==
    IF n = 0 THEN 0
    ELSE MatCell(a, ka, b, kb, i, j, n - 1)
           + At(a, ka, i, n - 1) * At(b, kb, n - 1, j)

\* C5: dot(m) returns a tensor of shape (batch, height, m.width) whose k-th
\* matrix is the product of this's k-th matrix with m's single matrix when
\* m.batch == 1, and with m's k-th matrix when m.batch == this.batch.
C5_DotIsBatchedMatMul ==
    (out.op = "dot" /\ WellFormed(self) /\ self.width = m.height
       /\ (m.batch = 1 \/ m.batch = self.batch)) =>
        /\ out.status = "ok"
        /\ ~out.oob
        /\ out.t.batch = self.batch /\ out.t.height = self.height
        /\ out.t.width = m.width
        /\ WellFormed(out.t)
        /\ \A c \in Cells(out.t) :
              At(out.t, c[1], c[2], c[3])
                = MatCell(self, c[1], m, IF m.batch = 1 THEN 0 ELSE c[1],
                          c[2], c[3], self.width)

C5_Witness ==
    /\ out.op = "dot" /\ out.status = "ok" /\ WellFormed(self)
    /\ self.width = m.height /\ self.width >= 2
    /\ self.batch >= 2 /\ m.batch = self.batch
    /\ \E c \in Cells(out.t) : At(out.t, c[1], c[2], c[3]) # 0

\* C6: dot(m) called with this.width != m.height fails with a dimension
\* mismatch and produces no result tensor.
C6_DotRejectsInnerMismatch ==
    (out.op = "dot" /\ self.width # m.height) =>
        out.status = "assert" /\ out.t = NoTensor

C6_Witness ==
    out.op = "dot" /\ self.width # m.height /\ out.status = "assert"

\* equal shapes, or m of batch size 1 and of a's height and width
Compatible(a, b) ==
    a.height = b.height /\ a.width = b.width
      /\ (b.batch = a.batch \/ b.batch = 1)

C8_AddScalarEveryElement ==
    (out.op = "add_value" /\ WellFormed(self)) =>
        /\ out.status = "ok"
        /\ ~out.oob
        /\ SameShape(out.t, self)
        /\ WellFormed(out.t)
        /\ \A i \in 1..self.len : out.t.data[i] = self.data[i] + out.value

(***************************************************************************)
(* Properties of the 4-axis Tensor and its shared buffers.                 *)
(***************************************************************************)
\* the tensors that point into buffer b
Holders(b) == {s \in Slots : Live(s) /\ ts[s].data.buf = b}

\* the buffer element a tensor's coordinates x stand for
Address(t, x) == t.data.off + getIndex(t, x[1], x[2], x[3], x[4])

\* operator==: the same shape and the same elements
EqualByValue(hp, a, b) == a.dim = b.dim /\ Visible(hp, a) = Visible(hp, b)

\* what clone() returns: equal to the source by value, on a buffer of its own
C9_CloneFresh ==
    last.op = "clone" =>
        /\ EqualByValue(heap, ts[last.dst], ts[last.src])
        /\ ts[last.dst].data.buf # ts[last.src].data.buf
        /\ Holders(ts[last.dst].data.buf) = {last.dst}

\* a clone never points into the buffer it was cloned from
C9_CloneApart ==
    \A s \in Slots : clonedFrom[s] # 0 =>
        /\ Live(s)
        /\ ts[s].data.buf # clonedFrom[s]

\* a write through a clone leaves the buffer it was cloned from as it was
C9_WriteKeepsSource ==
    (last'.op = "setValue" /\ clonedFrom[last'.dst] # 0) =>
        /\ heap'[clonedFrom[last'.dst]] = heap[clonedFrom[last'.dst]]
        /\ \A s \in Holders(clonedFrom[last'.dst]) :
              Visible(heap', ts'[s]) = Visible(heap, ts[s])

\* C9 -- clone() returns a tensor equal to its source by value, on a buffer
\* of its own that no other tensor holds, whether or not the source is
\* shared; a write through the clone leaves the buffer it was cloned from,
\* and so the source and every tensor sharing with the source, as it was.
C9_CloneIsIndependent ==
    /\ [](C9_CloneFresh /\ C9_CloneApart)
    /\ [][C9_WriteKeepsSource]_vars

\* a clone of a source that another tensor shares has been written, and now
\* differs from the source
C9_Witness ==
    /\ last.op = "setValue"
    /\ clonedFrom[last.dst] # 0
    /\ Cardinality(Holders(clonedFrom[last.dst])) >= 2
    /\ \E s \in Holders(clonedFrom[last.dst]) :
          /\ ts[s].dim = ts[last.dst].dim
          /\ Visible(heap, ts[s]) # Visible(heap, ts[last.dst])

ViewOps == {"getBatchSlice", "getSharedDataTensor", "Map",
            "copyConstruct", "copyAssign"}

\* where element x of the tensor made by the last operation lies in its
\* origin: `e` batches on for a batch slice, `e` elements on for the others
InOrigin(x) ==
    LET o == ts[last.src]
    IN  CASE last.op = "getBatchSlice" ->
               Address(o, <<x[1] + last.e, x[2], x[3], x[4]>>)
          [] last.op \in {"getSharedDataTensor", "Map"} ->
               o.data.off + last.e + getIndex(ts[last.dst], x[1], x[2], x[3], x[4])
          [] OTHER -> Address(o, x)

\* the tensor just made lies in its origin's buffer, each element where the
\* request put it
C10_Aliases ==
    (last.op \in ViewOps /\ last.ok) =>
        /\ Live(last.dst)
        /\ ts[last.dst].data.buf = ts[last.src].data.buf
        /\ \A x \in Coords(ts[last.dst].dim) :
              Address(ts[last.dst], x) = InOrigin(x)

\* a write is read back by every holder of the buffer whose elements
\* include the written one, at the index its own offset gives
C10_WriteSeenByHolders ==
    last.op = "setValue" =>
        LET w == ts[last.dst]
        IN  \A s \in Holders(w.data.buf) :
              LET t == ts[s]
                  i == w.data.off + last.e - t.data.off
              IN  (0 <= i /\ i < length(t)) =>
                     /\ Visible(heap, t)[i + 1] = last.v
                     /\ \E x \in Coords(t.dim) :
                           /\ getIndex(t, x[1], x[2], x[3], x[4]) = i
                           /\ getValue(heap, t, x[1], x[2], x[3], x[4]) = last.v

\* making a view or a copy allocates nothing
C10_NoAllocation ==
    (last'.op \in ViewOps) =>
        /\ nbuf' = nbuf
        /\ Len(heap') = Len(heap)

\* C10 -- a tensor obtained by getBatchSlice, getSharedDataTensor, Map of a
\* shared buffer, copy construction or copy assignment allocates no buffer
\* and lies in its origin's buffer; a value written through any holder is
\* read by every other holder at the element its offset makes of it.
C10_ViewsAlias ==
    /\ [](C10_Aliases /\ C10_WriteSeenByHolders)
    /\ [][C10_NoAllocation]_vars

\* a write through a view that starts inside the buffer, read by a holder
\* that starts at the buffer's first element, at another index
C10_Witness ==
    /\ last.op = "setValue"
    /\ ts[last.dst].data.off > 0
    /\ \E s \in Holders(ts[last.dst].data.buf) :
          /\ s # last.dst
          /\ ts[s].data.off = 0
          /\ ts[last.dst].data.off + last.e < length(ts[s])
          /\ Visible(heap, ts[s])[ts[last.dst].data.off + last.e + 1] = last.v

\* the buffer elements a tensor can address
Reach(t) == {Address(t, x) : x \in Coords(t.dim)}

\* the elements of its buffer a tensor shows
Extent(t) == t.data.off .. (t.data.off + length(t) - 1)

\* the requests made of a tensor: shapes and offsets up to one past the end
Requests == SharedDims \X (0..(MaxLen + 1))

\* a request of getSharedDataTensor on the tensor t is accepted exactly when
\* it fits, and an accepted view stays inside t's elements
C11_SharedRequest(t, d, offset) ==
    LET r == getSharedDataTensor(t, d, offset)
    IN  /\ r.ok <=> (offset + getDataLen(d) <= length(t))
        /\ ~r.ok => r.t = NoObject
        /\ r.ok => /\ Reach(r.t) \subseteq Extent(t)
                   /\ r.t.data.buf = t.data.buf

\* the same of getBatchSlice, whose offset and size count batches
C11_SliceRequest(t, offset, size) ==
    LET r == getBatchSlice(t, offset, size)
        d == <<size, t.dim[2], t.dim[3], t.dim[4]>>
    IN  /\ r.ok <=> (offset * getFeatureLen(t.dim) + getDataLen(d) <= length(t))
        /\ ~r.ok => r.t = NoObject
        /\ r.ok => /\ Reach(r.t) \subseteq Extent(t)
                   /\ r.t.data.buf = t.data.buf

Buffers == 1..Len(heap)

\* a buffer is live exactly while some tensor points into it
C12_LiveWhileHeld ==
    /\ nbuf = Len(heap)
    /\ \A b \in Buffers : heap[b].live <=> Holders(b) # {}
    /\ \A s \in Slots : Live(s) =>
          /\ ts[s].data.buf \in Buffers
          /\ heap[ts[s].data.buf].live

\* a buffer is freed by the step that takes its last holder away, and a
\* freed buffer stays freed
C12_FreedWithLastHolder ==
    \A b \in Buffers :
        /\ ~heap[b].live => ~heap'[b].live
        /\ (heap[b].live /\ ~heap'[b].live) =>
              /\ last'.op \in {"destroy", "copyAssign"}
              /\ Holders(b) = {last'.dst}

\* C12 -- over any sequence of creation, copy, view creation, clone and
\* destruction, a buffer is live as long as at least one tensor points into
\* it and is freed once, at the moment its last holder goes; no live tensor
\* points into a freed buffer.
C12_BufferLifetime ==
    /\ []C12_LiveWhileHeld
    /\ [][C12_FreedWithLastHolder]_vars

\* the second of two tensors sharing the first buffer has been destroyed
\* after the first, and the buffer is freed
C12_Witness ==
    /\ last.op = "destroy"
    /\ last.dst = 2
    /\ last.n = 2
    /\ ~heap[1].live
    /\ \A s \in Slots : ~Live(s)

\* a reshape request on the tensor t succeeds exactly when the element count
\* is kept; then only shape and strides change, otherwise nothing does
C13_ReshapeRequest(t, d) ==
    LET r == reshape(t, d)
    IN  /\ r.ok <=> (d[1] * d[2] * d[3] * d[4] = length(t))
        /\ r.ok => /\ r.t.dim = d
                   /\ r.t.strides = <<d[2] * d[3] * d[4], d[3] * d[4], d[4], 1>>
                   /\ r.t.data = t.data
                   /\ Visible(heap, r.t) = Visible(heap, t)
        /\ ~r.ok => r.t = t

C13_ReshapeRequests ==
    \A s \in Slots : Live(s) =>
        \A d \in SharedDims : C13_ReshapeRequest(ts[s], d)

\* what a call of reshape leaves: the buffer and every other tensor as they
\* were, and the tensor itself too when the call failed
C13_ReshapeStep ==
    (last'.op = "reshape") =>
        /\ heap' = heap
        /\ \A s \in Slots \ {last'.dst} : ts'[s] = ts[s]
        /\ ts'[last'.dst].data = ts[last'.dst].data
        /\ Visible(heap', ts'[last'.dst]) = Visible(heap, ts[last'.dst])
        /\ ~last'.ok => ts'[last'.dst] = ts[last'.dst]
        /\ last'.ok => ts'[last'.dst].strides
                          = computeStrides(ts'[last'.dst].dim)

\* C13 -- reshape(d) succeeds and replaces shape and strides in place,
\* keeping the buffer and the element order, exactly when d has as many
\* elements as the tensor; otherwise it fails and leaves shape, strides and
\* buffer unchanged.
C13_ReshapeKeepsCount ==
    /\ []C13_ReshapeRequests
    /\ [][C13_ReshapeStep]_vars

\* a tensor of more than one element has been reshaped to another shape
C13_Witness ==
    /\ last.op = "reshape"
    /\ last.ok
    /\ length(ts[last.dst]) > 1
    /\ ts[last.dst].dim[4] = 1
    /\ ts[last.dst].data.buf = 1
    /\ Len(heap[1].cells) = length(ts[last.dst])
    /\ \E s \in Slots \ {last.dst} :
          /\ Live(s)
          /\ ts[s].data = ts[last.dst].data
          /\ ts[s].dim # ts[last.dst].dim

\* the strides a shape asks for: the product of the sizes of the later axes
StridesOf(d) == <<d[2] * d[3] * d[4], d[3] * d[4], d[4], 1>>

EvenRows(a) == \A j \in 1..Len(a) : Len(a[j]) = Len(a[1])

\* every matrix of a literal has the rows of the first, all of one length
EvenMatrices(d) ==
    \A i \in 1..Len(d) :
        /\ Len(d[i]) = Len(d[1])
        /\ \A j \in 1..Len(d[i]) : Len(d[i][j]) = Len(d[1][1])

\* C15 -- constructing a tensor from nested literal data whose rows or inner
\* matrices have inconsistent lengths fails with an invalid-argument
\* condition and constructs no tensor; it never reads past the end of a
\* shorter row.
C15_RaggedLiteralRejected ==
    /\ (out.op = "fromRows" /\ ~EvenRows(out.value)) =>
          /\ out.status = "invalid"
          /\ out.t = NoTensor
          /\ ~out.oob
    /\ (out.op = "fromMatrices" /\ ~EvenMatrices(out.value)) =>
          /\ out.status = "invalid"
          /\ out.t = NoTensor
          /\ ~out.oob

RECURSIVE Nested(_, _)
\* sn(...s2(s1(anchor))...) for the steps s1..sn
Nested(steps, anchor) ==
    IF steps = <<>> THEN anchor
    ELSE applyStep(steps[Len(steps)],
                   Nested(SubSeq(steps, 1, Len(steps) - 1), anchor))

\* C16 -- for a chain with the steps s1..sn appended in that order, run()
\* returns sn(...s2(s1(anchor))...), every step applied once; until run()
\* is called appending a step executes nothing.
C16_RunAppliesInOrder ==
    /\ out.op \in {"chain", "append"} => out.applied = 0 /\ out.t = <<>>
    /\ out.op = "run" =>
          /\ out.t = Nested(out.value.steps, out.value.anchor)
          /\ out.applied = Len(out.value.steps)

\* a chain of an addition and then a multiplication, which do not commute,
\* has been run
C16_Witness ==
    /\ out.op = "run"
    /\ Len(out.value.steps) >= 2
    /\ out.value.steps[1].f = "add_i"
    /\ out.value.steps[2].f = "multiply_i"
    /\ out.t # run_lastFirst(out.value.steps, out.value.anchor).d

\* C17 -- save followed by read into a tensor of identical shape reproduces
\* every element, in buffer order: exactly length 4-byte values are written
\* and read, with no header, and the shape of the tensor read into is
\* unchanged.
C17_SaveReadRoundTrip ==
    /\ out.op \in {"save", "read"} =>
          /\ Len(out.file) = 4 * out.value.len
          /\ \A i \in 0..(out.value.len - 1) :
                SubSeq(out.file, 4 * i + 1, 4 * i + 4)
                  = FloatBytes(out.value.data[i + 1])
    /\ out.op = "read" =>
          /\ out.t.data = out.value.data
          /\ SameShape(out.t, out.value)
          /\ out.t.len = out.value.len
          /\ out.pos = 4 * out.value.len

\* a tensor of several elements, a negative one among them, has been saved
\* and read back
C17_Witness ==
    /\ out.op = "read"
    /\ out.value.len > 1
    /\ \E i \in 1..out.value.len : out.value.data[i] < 0
    /\ \E i \in 1..out.value.len : out.t.data[i] > 0

(***************************************************************************)
(* Properties of the activation functions.                                 *)
(***************************************************************************)
\* the sum of the powers of e with the exponents a[i] + b[j], as the number
\* of times each exponent occurs: the product of two sums of exponentials
Product(a, b) ==
    LET pairs == (DOMAIN a) \X (DOMAIN b)
    IN  [e \in {a[v[1]] + b[v[2]] : v \in pairs} |->
            Cardinality({v \in pairs : a[v[1]] + b[v[2]] = e})]

\* p and q are the same number: p.num / p.den = q.num / q.den
SameValue(p, q) ==
    /\ p.kind = "fin"
    /\ q.kind = "fin"
    /\ Product(p.num, q.den) = Product(q.num, p.den)

RECURSIVE Numerators(_, _, _)
Numerators(data, from, n) ==
    IF n = 0 THEN <<>>
    ELSE Numerators(data, from, n - 1) \o data[from + n].num

\* data[from] + ... + data[from + n - 1] = 1: the elements are quotients
\* by one divisor, and their numerators add up to it
SumsToOne(data, from, n) ==
    /\ \A j \in 1..n : data[from + j].kind = "fin"
    /\ \A j \in 1..n :
          Product(data[from + j].den, <<0>>) = Product(data[from + 1].den, <<0>>)
    /\ Product(Numerators(data, from, n), <<0>>)
           = Product(data[from + 1].den, <<0>>)

\* the constants added to a row
Shifts == {1, 1000}

Shifted(data, c) == [p \in DOMAIN data |-> data[p] + c]

SameOutput(a, b) ==
    /\ DOMAIN a = DOMAIN b
    /\ \A p \in DOMAIN a : SameValue(a[p], b[p])

\* ActivationLayer::softmax: every batch's features sum to 1, and adding a
\* constant to the input leaves the output as it is
C18_LayerSoftmax ==
    out.op = "softmax" =>
        LET feat_len == getFeatureLen(out.value.dim)
        IN  /\ \A k \in 0..(out.value.dim[1] - 1) :
                   SumsToOne(out.t.data, k * feat_len, feat_len)
            /\ \A c \in Shifts :
                   SameOutput(
                       softmax(Variable(out.value.dim,
                                        Shifted(out.value.data, c))).data,
                       out.t.data)

\* Tensor::softmax: every row of `width` elements sums to 1, and adding a
\* constant to the input leaves the output as it is
C18_TensorSoftmax ==
    out.op = "Tensor::softmax" =>
        /\ \A r \in 0..(out.value.batch * out.value.height - 1) :
               SumsToOne(out.t.data, r * out.value.width, out.value.width)
        /\ \A c \in Shifts :
               SameOutput(
                   Tensor_softmax(WithData(out.value,
                                           Shifted(out.value.data, c))).data,
                   out.t.data)

\* C18 -- softmax subtracts the row maximum, exponentiates and divides by
\* the row sum of exponentials, so that each output row sums to 1 for
\* arbitrary finite inputs and the output is unchanged when a constant is
\* added to every element of a row.
C18_SoftmaxRowsSumToOne ==
    /\ C18_LayerSoftmax
    /\ C18_TensorSoftmax

RECURSIVE Jacobian(_, _, _, _, _)
\* sum over l = 0 .. n-1 of d[l] * (x[l] * (1 - x[j]) if l = j, else
\* -x[l] * x[j]), the row starting at element R
Jacobian(x, d, R, j, n) ==
    IF n = 0 THEN 0
    ELSE LET l == n - 1
         IN  Jacobian(x, d, R, j, n - 1)
                 + d[R + l + 1] * (IF l = j
                                   THEN x[R + l + 1] * (1 - x[R + j + 1])
                                   ELSE (0 - x[R + l + 1]) * x[R + j + 1])

\* the result of softmaxPrime is the Jacobian-vector product over rows of
\* `len` elements
JacobianOver(len) ==
    \A R \in {r \in 0..(Len(out.t.data) - 1) : r % len = 0} :
        \A j \in 0..(len - 1) :
            out.ret.data[R + j + 1]
                = Jacobian(out.t.data, out.deriv.data, R, j, len)

\* softmaxPrime with an upstream gradient of more than one element: the
\* product is taken over each row of `width` elements
C19_JacobianOverWidth ==
    (/\ out.op = "softmaxPrime"
     /\ out.deriv.dim = out.t.dim
     /\ out.deriv.dim # TensorDim) => JacobianOver(out.t.dim[4])

\* C19 -- for each batch row, the group of elements softmax normalizes
\* over, and each j in it, softmaxPrime's result[j] is the sum over all l
\* in the row of d[l] * (x[l] * (1 - x[j]) if l = j, else -x[l] * x[j]);
\* every element of the output is written exactly once and x and d are not
\* modified.
C19_JacobianOverSoftmaxRow ==
    (out.op = "softmaxPrime" /\ out.deriv.dim = out.t.dim) =>
        /\ JacobianOver(getFeatureLen(out.t.dim))
        /\ \A p \in DOMAIN out.writes : out.writes[p] = 1
        /\ DOMAIN out.writes = DOMAIN out.ret.data
        /\ out.value = out.t

\* max(0, x)
Max0(x) == IF x > 0 THEN x ELSE 0

\* the derivative of relu at x
ReluSlope(x) == IF x > 0 THEN 1 ELSE 0

\* C20 -- relu(x) is max(0, x) and reluPrime(y) is 1 for y > 0 and 0
\* otherwise; evaluated on the forward output, reluPrime(relu(x)) is the
\* derivative of relu at x, and relu(relu(x)) = relu(x).
C20_ReluOnForwardOutput ==
    /\ out.op = "forwarding" =>
          \A p \in DOMAIN out.value.data :
              /\ out.t.data[p] = Max0(out.value.data[p])
              /\ relu(out.t.data[p]) = out.t.data[p]
              /\ reluPrime(out.t.data[p])
                     = (IF out.t.data[p] > 0 THEN 1 ELSE 0)
    /\ out.op = "calcDerivative" =>
          \A p \in DOMAIN out.value.data :
              /\ out.t.data[p] = ReluSlope(out.value.data[p])
              /\ out.ret.data[p] = out.deriv.data[p] * ReluSlope(out.value.data[p])

\* the derivative was taken of an input with a positive, a zero and a
\* negative element
C20_Witness ==
    /\ out.op = "calcDerivative"
    /\ \E p, q, r \in DOMAIN out.value.data :
          /\ out.value.data[p] > 0 /\ out.t.data[p] = 1
          /\ out.value.data[q] = 0 /\ out.t.data[q] = 0
          /\ out.value.data[r] < 0 /\ out.t.data[r] = 0

(***************************************************************************)
(* Properties of the activation layer object.                              *)
(***************************************************************************)
\* the outcome of the last setActivation call
C21_SelectorOutcome ==
    out.op = "setActivation" =>
        IF out.value \in Supported
        THEN out.status = "ok" /\ out.fns = PairOf(out.value)
        ELSE out.status = "std::invalid_argument"

\* a rejected call leaves the installed pair as it was
C21_RejectedKeepsPair ==
    (out'.op = "setActivation" /\ out'.status # "ok") => out'.fns = out.fns

\* C21 -- setActivation(type) with ACT_UNKNOWN or any selector outside
\* {tanh, sigmoid, softmax, relu, none} fails with an invalid-argument
\* condition raised at the call and leaves the installed forward and
\* derivative functions unchanged; each supported selector installs its
\* matching pair.
C21_UnsupportedSelectorRejected ==
    /\ []C21_SelectorOutcome
    /\ [][C21_RejectedKeepsPair]_vars

\* C27 -- forwarding() leaves the layer's input tensor unchanged for every
\* activation type, scalar ones through apply(f, hidden) and softmax
\* through a clone, and writes only to the hidden output tensor.
C27_ForwardingKeepsInput ==
    [][(out'.op = "forwarding" /\ out'.n # out.n) =>
          /\ out'.input = out'.value
          /\ out'.fns = out.fns
          /\ out'.deriv = out.deriv
          /\ out'.ret = out.ret
          /\ DOMAIN out'.hidden = DOMAIN out'.input]_vars

\* forwarding of a softmax or sigmoid layer has been run on an input of
\* several elements, after a derivative had been taken
C27_Witness ==
    /\ out.op = "forwarding"
    /\ out.fns.act_fn \in {"softmax", "sigmoid"}
    /\ Len(out.input) > 1
    /\ out.hidden # out.input
    /\ out.ret # <<>>

\* C29 -- calcDerivative() leaves the stored forward output, the hidden
\* variable, unchanged, so that after one forwarding() any number of
\* consecutive calcDerivative() calls with the same upstream gradient give
\* the same input gradient, upstream[i] * prime(output[i]), for every
\* activation type.
C29_DerivativeKeepsOutput ==
    out.op = "calcDerivative" =>
        /\ out.hidden = out.forward
        /\ out.fns.act_prime_fn # "softmaxPrime" =>
              out.ret = multiplyBy(out.deriv,
                                   apply(out.fns.act_prime_fn, out.forward))

\* C22 -- transpose returns a new tensor of shape (batch, width, height)
\* with result(k, i, j) = this(k, j, i) for all valid indices, the source
\* unchanged, and transposing the result again gives a tensor equal to the
\* original.
C22_TransposeSwapsAxes ==
    out.op = "transpose" =>
        LET src == IF out.recv = "this" THEN out.value ELSE transpose(out.value)
        IN  /\ out.status = "ok"
            /\ out.t.batch = src.batch
            /\ out.t.height = src.width
            /\ out.t.width = src.height
            /\ WellFormed(out.t)
            /\ \A k \in 0..(src.batch - 1), i \in 0..(src.width - 1),
                  j \in 0..(src.height - 1) :
                  At(out.t, k, i, j) = At(src, k, j, i)
            /\ out.recv = "transpose" => out.t = out.value

\* a tensor of several rows and columns that is not its own transpose has
\* been transposed twice
C22_Witness ==
    /\ out.op = "transpose"
    /\ out.recv = "transpose"
    /\ out.value.height > 1
    /\ out.value.width > 1
    /\ out.value.batch > 1
    /\ transpose(out.value).data # out.value.data

\* C23 -- argmax returns the index of a maximal element: for every
\* non-empty tensor or vector, including ones whose elements are all zero
\* or negative, the returned index i has data[i] >= data[j] for every j.
C23_ArgmaxIsMaximal ==
    out.op = "argmax" =>
        /\ out.index \in 0..(Len(out.value) - 1)
        /\ \A j \in 1..Len(out.value) :
              out.value[out.index + 1] >= out.value[j]

\* C25 -- divide(m) writes every element i in [0, length) with
\* this[i] / m[i], or this[b + j] / m[j] per batch when m.batch == 1, as a
\* naive loop does, and the 4-way unrolled body and its remainder loop read
\* and write only indices within [0, length) of each buffer, for every
\* length, lengths below 4 and lengths not divisible by 4 included.
C25_DivideStaysInBounds ==
    (out.op = "divide" /\ WellFormed(self) /\ Compatible(self, m)) =>
        /\ out.status = "ok"
        /\ ~out.oob
        /\ SameShape(out.t, self)
        /\ WellFormed(out.t)
        /\ \A c \in Cells(self) :
              At(out.t, c[1], c[2], c[3])
                = Quot(At(self, c[1], c[2], c[3]),
                       At(m, IF m.batch = 1 THEN 0 ELSE c[1], c[2], c[3]))

\* the index ranges of the two loops of multiply over n elements: the body
\* unrolled four times, and the loop over the rest
MultiplySpans(n) ==
    [unrolled |-> 0..(4 * (n \div 4) - 1), rest |-> (4 * (n \div 4))..(n - 1)]

\* C26 -- multiply(m) with 4-way unrolling gives the result of a naive
\* per-element loop: for every length and for both m.batch == 1 and
\* m.batch == this.batch each result index in [0, length) is written once
\* with this[i] * m[i], m replayed per batch when m.batch == 1, and no index
\* outside the buffers is touched.
C26_MultiplyIsElementwise ==
    (out.op = "multiply" /\ WellFormed(self) /\ Compatible(self, m)) =>
        LET n == IF m.batch = 1 THEN self.height * self.width ELSE self.len
            spans == MultiplySpans(n)
        IN  /\ out.status = "ok"
            /\ ~out.oob
            /\ SameShape(out.t, self)
            /\ WellFormed(out.t)
            /\ \A c \in Cells(self) :
                  At(out.t, c[1], c[2], c[3])
                    = At(self, c[1], c[2], c[3])
                        * At(m, IF m.batch = 1 THEN 0 ELSE c[1], c[2], c[3])
            /\ spans.unrolled \cap spans.rest = {}
            /\ spans.unrolled \cup spans.rest = 0..(n - 1)

\* tensors of several batches whose length is above 4 and not divisible by
\* 4 have been multiplied, both loops run
C26_Witness ==
    /\ out.op = "multiply"
    /\ out.status = "ok"
    /\ WellFormed(self)
    /\ m.batch = self.batch
    /\ SameShape(self, m)
    /\ self.len > 4
    /\ self.len % 4 # 0
    /\ \E p \in 5..self.len : out.t.data[p] # 0

\* C28 -- for every pair of operands that passes dot's check
\* width == m.height, every index read from this's buffer and from m's and
\* every index written to the result lies within that buffer, for all batch
\* sizes of m, those that are neither 1 nor this.batch included.
C28_DotStaysInBounds ==
    (out.op = "dot" /\ WellFormed(self) /\ WellFormed(m)
       /\ self.width = m.height) =>
        /\ out.status = "ok"
        /\ ~out.oob


(***************************************************************************)
(* Properties of the DeepQ replay queue.                                   *)
(***************************************************************************)
\* The queue holds the most recent steps, in the order they were taken:
\* what was evicted is what was pushed first.
OldestFirst(Q, steps) ==
    /\ \A i \in 1..(Len(Q) - 1) : Q[i].serial + 1 = Q[i + 1].serial
    /\ Len(Q) > 0 => Q[Len(Q)].serial = steps

DonePenalised(Q) ==
    \A i \in 1..Len(Q) : Q[i].done => Q[i].reward = -100

\* The three parts of the statement that do not depend on the capacity.
C30_EvictionPenaltyNonEmpty ==
    /\ OldestFirst(out.expQ, out.steps)
    /\ DonePenalised(out.expQ)
    /\ out.op = "getMiniBatch" => out.Qsize > 0

\* C30 -- in the DeepQ episode loop, after any number of environment steps
\* expQ holds at most REPLAY_MEMORY experiences, experiences are evicted
\* oldest first, every stored experience with done == true carries reward
\* -100, and getMiniBatch is only ever called on a non-empty queue.
C30_ReplayQueueWithinCapacity ==
    /\ Len(out.expQ) <= REPLAY_MEMORY
    /\ C30_EvictionPenaltyNonEmpty

================================================================
